--------------------------- MODULE RecordingProofs ----------------------------
(***************************************************************************)
(* What a recorder leaves on the disk, for any number of tracks, any       *)
(* times, durations and bounds, with any I/O failing: RecordingInv is      *)
(* inductive. It says that the tracks are in step (StepInv), what is on    *)
(* the disk of the segment that is being written (HeldInv), and that the   *)
(* other segments follow each other, one stream after the other            *)
(* (OrderInv). When the last instance has ended, what is there is a        *)
(* Recording, of which the playback server lists and sends what could be   *)
(* written: RecorderTypesAre and DiskPlayable are what PartsProofs uses.   *)
(***************************************************************************)
EXTENDS MediaProofs, FiniteSetTheorems, FunctionTheorems

-----------------------------------------------------------------------------
(* The segment that is written, its file, and how often writing failed.    *)
SegmentBounds(seg) ==
    /\ seg.start \in 0 .. MaxTime /\ seg.end \in 0 .. MaxTime /\ seg.number \in 0 .. seg.start
    /\ seg.part.start \in -1 .. MaxTime /\ seg.part.end \in -1 .. MaxTime /\ seg.last \in -1 .. MaxTime
    /\ format = "fmp4" => seg.start <= seg.end /\ (seg.part # Rec!NoPart => seg.start <= seg.part.end /\ seg.part.end <= seg.end)
FileBounds(file) ==
    /\ file.stream \in 0 .. MaxInstances /\ file.number \in 0 .. MaxTime
    /\ file.duration \in -MaxTime .. MaxTime /\ file.written \in 0 .. MaxTime /\ file.completes \in 0 .. 1
    /\ file.creates = 0 => ~file.header /\ file.duration = -1 /\ file.written = 0

(* fMP4: a file that is there is that of the segment; one that is not open *)
(* has no header, and says so.  Nothing is lost unless something fails.    *)
Saved(seg, file, failures) ==
    /\ file.creates > 0 => file.stream = instance.id /\ file.number = seg.number
    /\ seg.file # "none" => file.header
    /\ seg.file # "closed" => file.duration = -1
    /\ seg.file = "none" => ~file.header /\ file.written = 0 /\ (file.creates > 0 => file.failed)
    /\ file.written <= seg.end - seg.start /\ seg.last <= seg.end - seg.start
    /\ seg.lost # "part" => seg.last <= file.written
    /\ failures = 0 => seg.lost = "nothing"
    /\ seg.file = "closed" =>
           /\ -1 <= file.duration /\ file.duration <= seg.end - seg.start /\ file.lost = seg.lost
           /\ file.duration < 0 => file.failed
           /\ seg.lost = "nothing" => file.duration <= file.written
FileKept(seg, file, failures) ==
    /\ FileBounds(file)
    /\ file.completes = 1 => seg.file = "closed"
    /\ file.creates <= failures + 1 /\ (IF seg.file = "none" THEN file.creates <= failures ELSE file.creates > 0)
    /\ format = "fmp4" => Saved(seg, file, failures)
Kept(seg, d, failures) ==
    /\ seg \in SegmentTypes /\ d \in Disks /\ SegmentBounds(seg) /\ FileKept(seg, d[seg.start], failures)

(* Unless something of it was lost, a segment ends with what is written of *)
(* it or with its part; or there is no file, and no part any more.         *)
Reached(seg, file) == file.written = seg.end - seg.start \/ (seg.part # Rec!NoPart /\ seg.part.end = seg.end)
Covered(seg, file) == seg.lost = "nothing" => Reached(seg, file) \/ (seg.file = "none" /\ seg.part = Rec!NoPart)
Held(seg, d, failures) ==
    /\ Kept(seg, d, failures)
    /\ format = "fmp4" => Covered(seg, d[seg.start]) /\ (failures = 0 => Reached(seg, d[seg.start]))

(* The numbers these are about.                                            *)
LEMMA KeptTypes ==
    ASSUME NEW seg, NEW d, NEW n \in Nat, Kept(seg, d, n), DoubledTracks = {}
    PROVE  /\ seg \in SegmentTypes /\ d \in Disks /\ seg.start \in Rec!Times /\ d[seg.start] \in FileTypes
           /\ MaxTime \in Nat /\ MaxTime > 0 /\ d[seg.start].creates \in Nat
           /\ seg.file \in {"none", "open", "closed"} /\ seg.lost \in Losses /\ seg.part \in [start : Int, end : Int]
           /\ Kept(seg, d, n + 1)
<1>1. seg.start \in Rec!Times /\ MaxTime \in Nat /\ MaxTime > 0 /\ seg \in SegmentTypes /\ d \in Disks
  BY TimesAre DEF Kept, SegmentBounds
<1>2. d[seg.start] \in FileTypes /\ d[seg.start].creates \in Nat
  BY <1>1, NumbersAre
<1>3. seg.file \in {"none", "open", "closed"} /\ seg.lost \in Losses /\ seg.part \in [start : Int, end : Int]
  BY <1>1 DEF SegmentTypes
<1>4. Kept(seg, d, n + 1)
  BY <1>1, <1>2 DEF Kept, FileKept, Saved
<1> QED BY <1>1, <1>2, <1>3, <1>4

LEMMA HeldLater ==
    ASSUME NEW seg, NEW d, NEW n \in Nat, Held(seg, d, n), DoubledTracks = {}
    PROVE  Held(seg, d, n + 1)
BY KeptTypes DEF Held

LEMMA CreateKept ==
    ASSUME NEW seg, NEW d, NEW n \in Nat, Kept(seg, d, n), DoubledTracks = {}, instance.id \in 1 .. MaxInstances,
           seg.file = "none", NEW header \in BOOLEAN, NEW e, e = Rec!Create(seg, d, header)
    PROVE  /\ header => Kept([seg EXCEPT !.file = "open"], e, n) /\ e[seg.start].written = 0
           /\ ~header => Kept(seg, e, n + 1) /\ e[seg.start].written = 0
<1> DEFINE x == d[seg.start]  y == e[seg.start]
           open == [seg EXCEPT !.file = "open"]
<1>1. seg.start \in Rec!Times /\ x \in FileTypes /\ seg \in SegmentTypes /\ d \in Disks /\ instance.id \in Nat
      /\ MaxTime \in Nat /\ MaxTime > 0 /\ x.creates \in Nat /\ MaxInstances \in Nat
  BY KeptTypes, MediaAssumption DEF Rec!TimesAssumption
<1>2. /\ OthersKept(seg, d, e) /\ y.stream = instance.id /\ y.number = seg.number /\ (y.header <=> header)
      /\ y.duration = -1 /\ y.written = 0 /\ y.creates = x.creates + 1 /\ y.completes = x.completes
      /\ (y.failed <=> x.failed \/ ~header)
  BY <1>1, CreateIs
<1>3. open \in SegmentTypes /\ SameSegment(seg, open) /\ open.file = "open" /\ open.part = seg.part
      /\ open.last = seg.last /\ open.lost = seg.lost
  BY <1>1, BrokenIs DEF SegmentTypes
<1>4. /\ SegmentBounds(seg) /\ FileKept(seg, x, n) /\ seg.number \in 0 .. MaxTime /\ seg.end \in 0 .. MaxTime
      /\ seg.start \in 0 .. MaxTime
  BY <1>1 DEF Kept, SegmentBounds
<1>5. x.completes = 0 /\ x.creates <= n
  BY <1>4 DEF FileKept, FileBounds
<1>6. FileBounds(y)
  BY <1>1, <1>2, <1>4, <1>5 DEF FileBounds
<1> HIDE DEF x, y, open
<1>7. SegmentBounds(open)
  BY <1>3, <1>4 DEF SegmentBounds, SameSegment
<1>8. format = "fmp4" => /\ x.written = 0 /\ seg.last <= seg.end - seg.start /\ (seg.lost # "part" => seg.last <= 0)
                         /\ (n = 0 => seg.lost = "nothing") /\ seg.start <= seg.end
  BY <1>4 DEF FileKept, Saved, SegmentBounds
<1>9. header => FileKept(open, y, n)
  BY <1>1, <1>2, <1>3, <1>4, <1>5, <1>6, <1>8 DEF FileKept, Saved, SameSegment
<1>10. ~header => FileKept(seg, y, n + 1)
  BY <1>1, <1>2, <1>4, <1>5, <1>6, <1>8 DEF FileKept, Saved
<1> QED BY <1>1, <1>2, <1>3, <1>4, <1>7, <1>9, <1>10 DEF Kept, OthersKept, SameSegment, y, open

LEMMA WriteFailedKept ==
    ASSUME NEW seg, NEW d, NEW n \in Nat, Kept(seg, d, n), DoubledTracks = {}, NEW e, e = Rec!WriteFailed(seg, d)
    PROVE  Kept(seg, e, n)
<1> DEFINE x == d[seg.start]  y == e[seg.start]
<1>1. seg.start \in Rec!Times /\ seg \in SegmentTypes /\ d \in Disks
  BY KeptTypes
<1>2. /\ OthersKept(seg, d, e) /\ y.stream = x.stream /\ y.number = x.number /\ y.header = x.header
      /\ y.creates = x.creates /\ y.completes = x.completes /\ y.failed /\ y.duration = x.duration
      /\ y.written = x.written /\ y.lost = x.lost
  BY <1>1, WriteFailedIs DEF SameFile
<1>3. SegmentBounds(seg) /\ FileKept(seg, x, n)
  BY DEF Kept
<1> HIDE DEF x, y
<1>4. FileKept(seg, y, n)
  BY <1>2, <1>3 DEF FileKept, FileBounds, Saved
<1> QED BY <1>1, <1>2, <1>3, <1>4 DEF Kept, OthersKept, y

(* A part that is written, or lost.                                        *)
LEMMA AppendKept ==
    ASSUME NEW seg, NEW d, NEW n \in Nat, Kept(seg, d, n), DoubledTracks = {}, seg.file = "open", format = "fmp4",
           seg.part # Rec!NoPart, NEW r \in Rec!Append(seg, d)
    PROVE  /\ Kept(r.seg, r.disk, n + 1) /\ SameSegment(seg, r.seg) /\ r.seg.part = seg.part /\ r.seg.file = "open"
           /\ r.ok => /\ Kept(r.seg, r.disk, n) /\ r.seg.lost = seg.lost
                      /\ r.disk[seg.start].written = Rec!Later(seg.part.end - seg.start, d[seg.start].written)
           /\ ~r.ok => r.seg.lost = "part"
<1> DEFINE x == d[seg.start]  y == r.disk[seg.start]  end == seg.part.end - seg.start
<1>1. seg.start \in Rec!Times /\ x \in FileTypes /\ seg \in SegmentTypes /\ d \in Disks /\ MaxTime \in Nat
      /\ x.creates \in Nat
  BY KeptTypes
<1>2. IsAppended(seg, d, r)
  BY <1>1, AppendIs
<1>3. /\ r.disk \in Disks /\ y.stream = x.stream /\ y.number = x.number /\ y.header = x.header
      /\ y.creates = x.creates /\ y.completes = x.completes /\ y.duration = x.duration
      /\ r.seg \in SegmentTypes /\ r.seg.part = seg.part /\ r.seg.file = "open" /\ SameSegment(seg, r.seg)
  BY <1>2 DEF IsAppended, SameFile, OthersKept
<1>4. \/ /\ r.ok = TRUE /\ r.seg.lost = seg.lost /\ r.seg.last = end /\ y.written = Rec!Later(end, x.written)
      \/ /\ r.ok = FALSE /\ r.seg.lost = "part" /\ (r.seg.last = seg.last \/ r.seg.last = end) /\ y.written = x.written
  BY <1>2 DEF IsAppended
<1>5. SegmentBounds(seg) /\ FileKept(seg, x, n)
  BY DEF Kept
<1>6. /\ end \in 0 .. MaxTime /\ end <= seg.end - seg.start /\ x.written \in 0 .. MaxTime
      /\ x.written <= seg.end - seg.start /\ seg.start \in 0 .. MaxTime /\ seg.end \in 0 .. MaxTime
  <2>1. /\ seg.start \in 0 .. MaxTime /\ seg.end \in 0 .. MaxTime /\ seg.part.end \in -1 .. MaxTime
        /\ seg.start <= seg.part.end /\ seg.part.end <= seg.end
    BY <1>5 DEF SegmentBounds
  <2>2. x.written \in 0 .. MaxTime /\ x.written <= seg.end - seg.start
    BY <1>5 DEF FileKept, FileBounds, Saved
  <2> QED BY <1>1, <2>1, <2>2
<1> HIDE DEF x, y, end
<1>7. /\ y.written \in 0 .. MaxTime /\ x.written <= y.written /\ y.written <= seg.end - seg.start
      /\ r.ok = TRUE => end <= y.written
  BY <1>1, <1>4, <1>6 DEF Rec!Later
<1>8. SegmentBounds(r.seg)
  BY <1>1, <1>3, <1>4, <1>5, <1>6 DEF SegmentBounds, SameSegment
<1>9. FileBounds(y) /\ y.completes # 1 /\ y.creates <= n + 1 /\ y.creates > 0
  BY <1>1, <1>3, <1>5, <1>7 DEF FileKept, FileBounds
<1>10. /\ y.creates > 0 => y.stream = instance.id /\ y.number = seg.number
       /\ y.header /\ y.duration = -1
       /\ seg.last <= seg.end - seg.start /\ (seg.lost # "part" => seg.last <= x.written)
       /\ n = 0 => seg.lost = "nothing"
  BY <1>3, <1>5 DEF FileKept, Saved
<1>11. Saved(r.seg, y, n + 1) /\ (r.ok = TRUE => Saved(r.seg, y, n))
  BY <1>1, <1>3, <1>4, <1>6, <1>7, <1>9, <1>10 DEF Saved, SameSegment
<1>12. FileKept(r.seg, y, n + 1) /\ (r.ok = TRUE => FileKept(r.seg, y, n))
  BY <1>1, <1>3, <1>9, <1>11 DEF FileKept
<1>13. r.seg.start = seg.start
  BY <1>3 DEF SameSegment
<1> QED BY <1>3, <1>4, <1>8, <1>12, <1>13 DEF Kept, x, y, end

(* A part that is closed: the first one creates the file.                  *)
LEMMA ClosePartKept ==
    ASSUME NEW seg, NEW d, NEW n \in Nat, Kept(seg, d, n), DoubledTracks = {}, instance.id \in 1 .. MaxInstances,
           format = "fmp4", seg.part # Rec!NoPart, NEW r \in Rec!ClosePart(seg, d)
    PROVE  /\ Kept(r.seg, r.disk, n + 1) /\ SameSegment(seg, r.seg) /\ r.seg.part = seg.part
           /\ seg.file # "closed" => r.seg.file # "closed"
           /\ r.ok => /\ Kept(r.seg, r.disk, n) /\ r.seg.file = "open" /\ r.seg.lost = seg.lost
                      /\ r.disk[seg.start].written = Rec!Later(seg.part.end - seg.start, d[seg.start].written)
           /\ ~r.ok => \/ r.seg.lost = "part"
                       \/ /\ r.seg.file = seg.file /\ r.seg.file # "open" /\ r.seg.lost = seg.lost
                          /\ r.disk[seg.start].written = d[seg.start].written
<1> DEFINE open == [seg EXCEPT !.file = "open"]
           good == Rec!Create(seg, d, TRUE)
           bad == Rec!Create(seg, d, FALSE)
<1>1. seg \in SegmentTypes /\ seg.file \in {"none", "open", "closed"} /\ Kept(seg, d, n + 1) /\ SameSegment(seg, seg)
  BY KeptTypes DEF SameSegment
<1>2. open \in SegmentTypes /\ open.file = "open" /\ SameSegment(seg, open) /\ open.part = seg.part /\ open.lost = seg.lost
  BY <1>1, BrokenIs DEF SegmentTypes
<1>3. /\ seg.file = "none" => \/ r = Rec!Result(FALSE, seg, d)
                              \/ r = Rec!Result(FALSE, seg, bad)
                              \/ r \in Rec!Append(open, good)
      /\ seg.file = "open" => r \in Rec!Append(seg, d)
      /\ seg.file = "closed" => r = Rec!Result(FALSE, seg, d)
  BY DEF Rec!ClosePart
<1>4. ASSUME seg.file # "open", r = Rec!Result(FALSE, seg, d)
      PROVE  r.ok = FALSE /\ r.seg = seg /\ r.disk = d
  BY <1>4 DEF Rec!Result
<1>5. CASE seg.file = "none"
  <2>1. Kept(open, good, n) /\ good[seg.start].written = 0 /\ Kept(seg, bad, n + 1) /\ bad[seg.start].written = 0
    <3>1. TRUE => Kept(open, good, n) /\ good[seg.start].written = 0
      BY <1>5, CreateKept
    <3>2. ~FALSE => Kept(seg, bad, n + 1) /\ bad[seg.start].written = 0
      BY <1>5, CreateKept
    <3> QED BY <3>1, <3>2
  <2>2. d[seg.start].written = 0
    BY <1>5 DEF Kept, FileKept, Saved
  <2> HIDE DEF open, good, bad
  <2>3. CASE r = Rec!Result(FALSE, seg, d)
    BY <1>1, <1>4, <1>5, <2>3
  <2>4. CASE r = Rec!Result(FALSE, seg, bad)
    <3>1. r.ok = FALSE /\ r.seg = seg /\ r.disk = bad
      BY <2>4 DEF Rec!Result
    <3> QED BY <1>1, <1>5, <2>1, <2>2, <3>1
  <2>5. CASE r \in Rec!Append(open, good)
    <3>1. /\ Kept(r.seg, r.disk, n + 1) /\ SameSegment(open, r.seg) /\ r.seg.part = seg.part /\ r.seg.file = "open"
          /\ r.ok => /\ Kept(r.seg, r.disk, n) /\ r.seg.lost = open.lost
                     /\ r.disk[open.start].written = Rec!Later(open.part.end - open.start, good[open.start].written)
          /\ ~r.ok => r.seg.lost = "part"
      BY <1>2, <2>1, <2>5, AppendKept
    <3>2. open.start = seg.start /\ SameSegment(seg, r.seg)
      BY <1>2, <1>5, <3>1 DEF SameSegment
    <3> QED BY <1>2, <1>5, <2>1, <2>2, <3>1, <3>2
  <2> QED BY <1>3, <1>5, <2>3, <2>4, <2>5
<1>6. CASE seg.file = "open"
  BY <1>3, <1>6, AppendKept
<1>7. CASE seg.file = "closed"
  BY <1>1, <1>3, <1>4, <1>7
<1> QED BY <1>1, <1>5, <1>6, <1>7

(* MPEG-TS: nothing is known of what the file holds.                       *)
LEMMA ChangedKept ==
    ASSUME NEW seg, NEW d, NEW n \in Nat, Kept(seg, d, n), format # "fmp4", NEW x \in SegmentTypes, x.start = seg.start,
           x.file = seg.file, SegmentBounds(x)
    PROVE  Kept(x, d, n)
BY DEF Kept, FileKept

LEMMA FlushKept ==
    ASSUME NEW seg, NEW d, NEW n \in Nat, Kept(seg, d, n), DoubledTracks = {}, instance.id \in 1 .. MaxInstances,
           format # "fmp4", NEW r \in Rec!Flush(seg, d)
    PROVE  /\ Kept(r.seg, r.disk, n + 1) /\ (r.ok => Kept(r.seg, r.disk, n)) /\ SameSegment(seg, r.seg)
           /\ r.ok => r.seg.part = seg.part
           /\ seg.file # "closed" => r.seg.file # "closed"
<1> DEFINE open == [seg EXCEPT !.file = "open"]
           broken == [seg EXCEPT !.part = Rec!NoPart]
           both == [open EXCEPT !.part = Rec!NoPart]
           good == Rec!Create(seg, d, TRUE)
           bad == Rec!WriteFailed(seg, good)
           failed == Rec!WriteFailed(seg, d)
<1>1. seg \in SegmentTypes /\ seg.file \in {"none", "open", "closed"} /\ Kept(seg, d, n + 1) /\ SameSegment(seg, seg)
      /\ SegmentBounds(seg) /\ -1 \in -1 .. MaxTime
  BY KeptTypes DEF SameSegment, Kept
<1>2. /\ open \in SegmentTypes /\ open.file = "open" /\ SameSegment(seg, open) /\ open.part = seg.part
      /\ open.last = seg.last
      /\ broken \in SegmentTypes /\ broken.file = seg.file /\ SameSegment(seg, broken) /\ broken.part = Rec!NoPart
      /\ broken.last = seg.last
  BY <1>1, BrokenIs DEF SegmentTypes
<1>3. /\ both \in SegmentTypes /\ both.file = "open" /\ SameSegment(open, both) /\ both.part = Rec!NoPart
      /\ both.last = seg.last
  <2> HIDE DEF open
  <2> QED BY <1>2, BrokenIs DEF SegmentTypes
<1>4. /\ seg.file = "none" => \/ r = Rec!Result(FALSE, broken, d)
                              \/ r = Rec!Result(FALSE, both, bad)
                              \/ r = Rec!Result(TRUE, open, good)
      /\ seg.file = "open" => r = Rec!Result(TRUE, seg, d) \/ r = Rec!Result(FALSE, broken, failed)
      /\ seg.file = "closed" => r = Rec!Result(TRUE, seg, d)
  BY DEF Rec!Flush
<1>5. ASSUME seg.file = "none"
      PROVE  Kept(open, good, n)
  <2>1. TRUE => Kept(open, good, n) /\ good[seg.start].written = 0
    BY <1>5, CreateKept
  <2> QED BY <2>1
<1> HIDE DEF open, broken, both, good
<1>6. SegmentBounds(broken) /\ SegmentBounds(both)
  BY <1>1, <1>2, <1>3 DEF SegmentBounds, SameSegment, Rec!NoPart
<1>7. Kept(broken, d, n + 1) /\ Kept(seg, failed, n + 1) /\ Kept(broken, failed, n + 1)
  <2>1. Kept(broken, d, n + 1)
    BY <1>1, <1>2, <1>6, ChangedKept DEF SameSegment
  <2>2. Kept(seg, failed, n + 1)
    BY <1>1, WriteFailedKept
  <2> HIDE DEF failed
  <2>3. Kept(broken, failed, n + 1)
    BY <1>2, <1>6, <2>2, ChangedKept DEF SameSegment
  <2> QED BY <2>1, <2>2, <2>3
<1> HIDE DEF failed
<1>8. CASE seg.file = "none"
  <2>1. Kept(open, good, n) /\ Kept(open, good, n + 1)
    BY <1>5, <1>8, KeptTypes
  <2>2. open.start = seg.start /\ SameSegment(seg, both)
    BY <1>2, <1>3 DEF SameSegment
  <2>3. Kept(open, bad, n + 1)
    BY <2>1, <2>2, WriteFailedKept DEF Rec!WriteFailed, Rec!FileOf
  <2> HIDE DEF bad
  <2>4. Kept(both, bad, n + 1)
    BY <1>2, <1>3, <1>6, <2>3, ChangedKept DEF SameSegment
  <2>5. CASE r = Rec!Result(FALSE, broken, d)
    <3>1. r.ok = FALSE /\ r.seg = broken /\ r.disk = d
      BY <2>5 DEF Rec!Result
    <3> QED BY <1>2, <1>7, <1>8, <3>1
  <2>6. CASE r = Rec!Result(FALSE, both, bad)
    <3>1. r.ok = FALSE /\ r.seg = both /\ r.disk = bad
      BY <2>6 DEF Rec!Result
    <3> QED BY <1>3, <2>2, <2>4, <3>1
  <2>7. CASE r = Rec!Result(TRUE, open, good)
    <3>1. r.ok = TRUE /\ r.seg = open /\ r.disk = good
      BY <2>7 DEF Rec!Result
    <3> QED BY <1>2, <2>1, <3>1
  <2> QED BY <1>4, <1>8, <2>5, <2>6, <2>7
<1>9. CASE seg.file # "none"
  <2>1. CASE r = Rec!Result(TRUE, seg, d)
    <3>1. r.ok = TRUE /\ r.seg = seg /\ r.disk = d
      BY <2>1 DEF Rec!Result
    <3> QED BY <1>1, <3>1
  <2>2. CASE r = Rec!Result(FALSE, broken, failed)
    <3>1. r.ok = FALSE /\ r.seg = broken /\ r.disk = failed
      BY <2>2 DEF Rec!Result
    <3> QED BY <1>2, <1>7, <3>1
  <2> QED BY <1>1, <1>4, <1>9, <2>1, <2>2
<1> QED BY <1>8, <1>9

(* A file that is closed, when its last part has been written or lost.     *)
LEMMA CloseFileHeld ==
    ASSUME NEW q, NEW n \in Nat, Held(q.seg, q.disk, n), DoubledTracks = {}, q.ok \in BOOLEAN,
           q \in [ok : BOOLEAN, seg : SegmentTypes, disk : Disks],
           format = "fmp4" /\ q.seg.file = "open" /\ q.seg.lost = "nothing" =>
               q.disk[q.seg.start].written = q.seg.end - q.seg.start,
           NEW r \in Rec!CloseFile(q)
    PROVE  /\ Held(r.seg, r.disk, n) /\ SameSegment(q.seg, r.seg) /\ r.seg.lost = q.seg.lost
           /\ r.ok => q.ok
           /\ r.ok /\ q.seg.file # "none" =>
                  /\ r.seg.file = "closed" /\ r.disk[q.seg.start].duration = q.seg.end - q.seg.start
                  /\ r.disk[q.seg.start].written = q.disk[q.seg.start].written
<1> DEFINE seg == q.seg  d == q.disk  x == d[seg.start]  y == r.disk[seg.start]
<1>1. /\ seg \in SegmentTypes /\ d \in Disks /\ seg.start \in Rec!Times /\ x \in FileTypes /\ MaxTime \in Nat
      /\ seg.file \in {"none", "open", "closed"} /\ Kept(seg, d, n)
  BY KeptTypes DEF Held
<1>2. CASE seg.file = "none"
  BY <1>2 DEF Rec!CloseFile, SameSegment
<1>3. CASE seg.file = "open"
  <2>1. IsClosed(q, r)
    BY <1>1, <1>3, CloseFileIs
  <2>2. /\ r.disk \in Disks /\ y.stream = x.stream /\ y.number = x.number /\ y.header = x.header /\ y.creates = x.creates
        /\ y.written = x.written /\ y.lost = seg.lost
        /\ y.completes = x.completes \/ y.completes = x.completes + 1
        /\ y.duration = seg.end - seg.start \/ (format = "fmp4" /\ y.duration = seg.last /\ y.failed)
        /\ r.ok => y.duration = seg.end - seg.start
    BY <2>1 DEF IsClosed, OthersKept, SameFile
  <2>3. /\ r.seg \in SegmentTypes /\ r.seg.file = "closed" /\ SameSegment(seg, r.seg) /\ r.seg.part = seg.part
        /\ r.seg.lost = seg.lost /\ r.seg.last = seg.last /\ r.ok \in BOOLEAN /\ (r.ok => q.ok)
    BY <2>1 DEF IsClosed
  <2>4. /\ SegmentBounds(seg) /\ FileKept(seg, x, n) /\ (format = "fmp4" => Covered(seg, x) /\ (n = 0 => Reached(seg, x)))
    BY <1>1 DEF Kept, Held
  <2>5. format = "fmp4" /\ seg.lost = "nothing" => x.written = seg.end - seg.start
    BY <1>3
  <2> HIDE DEF seg, d, x, y
  <2>6. SegmentBounds(r.seg)
    BY <2>3, <2>4 DEF SegmentBounds, SameSegment
  <2>7. /\ seg.start \in 0 .. MaxTime /\ seg.end \in 0 .. MaxTime /\ seg.last \in -1 .. MaxTime
        /\ format = "fmp4" => seg.start <= seg.end /\ seg.last <= seg.end - seg.start
    BY <2>4 DEF SegmentBounds, FileKept, Saved
  <2>8. FileBounds(y) /\ y.creates <= n + 1 /\ y.creates > 0
    <3>1. /\ x.stream \in 0 .. MaxInstances /\ x.number \in 0 .. MaxTime /\ x.written \in 0 .. MaxTime /\ x.completes = 0
          /\ x.creates <= n + 1 /\ x.creates > 0
      BY <1>3, <2>4 DEF FileKept, FileBounds
    <3>2. y.duration \in -MaxTime .. MaxTime
      <4>1. seg.end - seg.start \in -MaxTime .. MaxTime
        BY <1>1, <2>7
      <4>2. CASE y.duration = seg.last
        BY <1>1, <2>7, <4>2, TimesAre
      <4> QED BY <2>2, <4>1, <4>2
    <3> QED BY <2>2, <3>1, <3>2 DEF FileBounds
  <2>9. format = "fmp4" => Saved(r.seg, y, n)
    <3>1. SUFFICES ASSUME format = "fmp4"
                   PROVE  Saved(r.seg, y, n)
      OBVIOUS
    <3>2. /\ x.stream = instance.id /\ x.number = seg.number /\ x.header
          /\ x.written <= seg.end - seg.start /\ seg.last <= seg.end - seg.start
          /\ seg.lost # "part" => seg.last <= x.written
          /\ n = 0 => seg.lost = "nothing"
      BY <1>3, <2>2, <2>4, <2>8, <3>1 DEF FileKept, Saved
    <3>3. /\ -1 <= y.duration /\ y.duration <= seg.end - seg.start
          /\ y.duration < 0 => y.failed
          /\ seg.lost = "nothing" => y.duration <= y.written
      <4>1. CASE y.duration = seg.end - seg.start
        BY <2>2, <2>5, <2>7, <3>1, <4>1
      <4>2. CASE y.duration = seg.last /\ y.failed
        BY <2>2, <2>7, <3>1, <3>2, <4>2
      <4> QED BY <2>2, <4>1, <4>2
    <3> QED BY <2>2, <2>3, <3>2, <3>3 DEF Saved, SameSegment
  <2>10. FileKept(r.seg, y, n)
    BY <2>3, <2>8, <2>9 DEF FileKept
  <2>11. Kept(r.seg, r.disk, n) /\ r.seg.start = seg.start
    BY <2>2, <2>3, <2>6, <2>10 DEF Kept, SameSegment, y
  <2>12. format = "fmp4" => Covered(r.seg, y) /\ (n = 0 => Reached(r.seg, y))
    <3>1. format = "fmp4" /\ (Reached(seg, x) \/ Covered(seg, x)) => (Reached(seg, x) => Reached(r.seg, y))
      BY <2>2, <2>3 DEF Reached, SameSegment
    <3> QED BY <1>3, <2>3, <2>4, <3>1 DEF Covered
  <2>13. Held(r.seg, r.disk, n)
    BY <2>11, <2>12 DEF Held, y
  <2> QED BY <2>2, <2>3, <2>13 DEF seg, d, x, y
<1>4. CASE seg.file = "closed"
  <2>1. r = Rec!Result(FALSE, seg, d)
    BY <1>4 DEF Rec!CloseFile
  <2>2. r.ok = FALSE /\ r.seg = seg /\ r.disk = d
    BY <2>1 DEF Rec!Result
  <2> QED BY <2>2 DEF SameSegment
<1> QED BY <1>1, <1>2, <1>3, <1>4

(* A segment that is closed.  If nothing was lost before and it went well  *)
(* the file holds all of it, and says so.                                  *)
Whole(file) == file.header /\ file.lost = "nothing" /\ file.duration = file.written

LEMMA CloseSegmentHeld ==
    ASSUME NEW seg, NEW d, NEW n \in Nat, Held(seg, d, n), FileInv(seg, d), DoubledTracks = {},
           instance.id \in 1 .. MaxInstances, NEW r \in Rec!CloseSegment(seg, d)
    PROVE  /\ Held(r.seg, r.disk, n + 1) /\ SameSegment(seg, r.seg)
           /\ r.ok => Held(r.seg, r.disk, n)
           /\ r.ok /\ n = 0 /\ format = "fmp4" /\ seg.part # Rec!NoPart =>
                  /\ r.disk[seg.start].creates > 0 /\ Whole(r.disk[seg.start])
                  /\ r.disk[seg.start].duration = seg.end - seg.start
                  /\ r.disk[seg.start].stream = instance.id /\ r.disk[seg.start].number = seg.number
<1> DEFINE Empty == Rec!Result(TRUE, seg, d)
<1>1. PICK q \in IF seg.part = Rec!NoPart THEN {Empty}
                 ELSE IF format = "fmp4" THEN Rec!ClosePart(seg, d) ELSE Rec!Flush(seg, d) : r \in Rec!CloseFile(q)
  BY DEF Rec!CloseSegment
<1>2. /\ seg \in SegmentTypes /\ d \in Disks /\ seg.start \in Rec!Times /\ Kept(seg, d, n) /\ instance.id \in Nat
      /\ Held(seg, d, n + 1) /\ MaxTime \in Nat
  BY KeptTypes, HeldLater DEF Held
<1>3. q \in {Empty} \cup Rec!ClosePart(seg, d) \cup Rec!Flush(seg, d)
  BY <1>1
<1> DEFINE Types == [ok : BOOLEAN, seg : SegmentTypes, disk : Disks]
<1>4. q \in Types /\ q.ok \in BOOLEAN
  <2>1. Writes(seg, d, q)
    BY <1>2, <1>3, ClosePartWrites, FlushWrites, LeftAlone
  <2> QED BY <2>1 DEF Writes
<1> DEFINE Flushed(p) == format = "fmp4" /\ p.seg.file = "open" /\ p.seg.lost = "nothing" =>
                             p.disk[p.seg.start].written = p.seg.end - p.seg.start
<1>5. /\ Held(q.seg, q.disk, n + 1) /\ (q.ok => Held(q.seg, q.disk, n)) /\ SameSegment(seg, q.seg) /\ Flushed(q)
      /\ q.ok /\ n = 0 /\ format = "fmp4" /\ seg.part # Rec!NoPart =>
             /\ q.seg.file = "open" /\ q.seg.lost = "nothing" /\ q.disk[seg.start].written = seg.end - seg.start
  <2>1. CASE seg.part = Rec!NoPart
    <3>1. q = Empty
      BY <1>1, <2>1
    <3>2. q.ok = TRUE /\ q.seg = seg /\ q.disk = d
      BY <3>1 DEF Rec!Result
    <3>3. Flushed(q)
      BY <2>1, <3>2 DEF Held, Covered, Reached
    <3> QED BY <1>2, <2>1, <3>2, <3>3 DEF SameSegment
  <2>2. CASE seg.part # Rec!NoPart /\ format = "fmp4"
    <3>1. q \in Rec!ClosePart(seg, d)
      BY <1>1, <2>2
    <3>2. /\ Kept(q.seg, q.disk, n + 1) /\ SameSegment(seg, q.seg) /\ q.seg.part = seg.part
          /\ q.ok => /\ Kept(q.seg, q.disk, n) /\ q.seg.file = "open" /\ q.seg.lost = seg.lost
                     /\ q.disk[seg.start].written = Rec!Later(seg.part.end - seg.start, d[seg.start].written)
          /\ ~q.ok => \/ q.seg.lost = "part"
                      \/ /\ q.seg.file = seg.file /\ q.seg.file # "open" /\ q.seg.lost = seg.lost
                         /\ q.disk[seg.start].written = d[seg.start].written
      BY <1>2, <2>2, <3>1, ClosePartKept
    <3>3. q.seg.start = seg.start /\ q.seg.end = seg.end
      BY <3>2 DEF SameSegment
    <3>4. /\ Covered(seg, d[seg.start]) /\ (n = 0 => seg.lost = "nothing" /\ Reached(seg, d[seg.start]))
          /\ d[seg.start].written \in 0 .. MaxTime /\ d[seg.start].written <= seg.end - seg.start
          /\ seg.start \in Nat /\ seg.end \in Nat /\ seg.part.end \in Int /\ seg.start <= seg.part.end /\ seg.part.end <= seg.end
      BY <1>2, <2>2 DEF Held, Kept, SegmentBounds, FileKept, FileBounds, Saved
    <3>5. /\ Reached(seg, d[seg.start]) =>
                 Rec!Later(seg.part.end - seg.start, d[seg.start].written) = seg.end - seg.start
          /\ seg.lost = "nothing" => Reached(seg, d[seg.start])
      BY <2>2, <3>4 DEF Reached, Covered, Rec!Later
    <3>6. CASE q.ok
      <4>1. seg.lost = "nothing" => q.disk[q.seg.start].written = q.seg.end - q.seg.start
        BY <3>2, <3>3, <3>5, <3>6
      <4>2. Covered(q.seg, q.disk[q.seg.start]) /\ (n = 0 => Reached(q.seg, q.disk[q.seg.start]))
        BY <3>2, <3>4, <3>6, <4>1 DEF Covered, Reached
      <4>3. Held(q.seg, q.disk, n) /\ Held(q.seg, q.disk, n + 1)
        BY <3>2, <3>6, <4>2, HeldLater DEF Held
      <4> QED BY <3>2, <3>3, <3>4, <3>6, <4>1, <4>3
    <3>7. CASE ~q.ok
      <4>1. Covered(q.seg, q.disk[q.seg.start]) /\ Flushed(q)
        BY <2>2, <3>2, <3>3, <3>5, <3>7 DEF Covered, Reached
      <4>2. Held(q.seg, q.disk, n + 1)
        BY <3>2, <4>1 DEF Held
      <4> QED BY <3>2, <3>7, <4>1, <4>2
    <3> QED BY <3>6, <3>7
  <2>3. CASE seg.part # Rec!NoPart /\ format # "fmp4"
    <3>1. q \in Rec!Flush(seg, d)
      BY <1>1, <2>3
    <3>2. Kept(q.seg, q.disk, n + 1) /\ (q.ok => Kept(q.seg, q.disk, n)) /\ SameSegment(seg, q.seg)
      BY <1>2, <2>3, <3>1, FlushKept
    <3> QED BY <2>3, <3>2 DEF Held
  <2> QED BY <2>1, <2>2, <2>3
<1>6. ASSUME NEW k \in Nat, Held(q.seg, q.disk, k)
      PROVE  /\ Held(r.seg, r.disk, k) /\ SameSegment(q.seg, r.seg) /\ r.seg.lost = q.seg.lost
             /\ r.ok => q.ok
             /\ r.ok /\ q.seg.file # "none" =>
                  /\ r.seg.file = "closed" /\ r.disk[q.seg.start].duration = q.seg.end - q.seg.start
                  /\ r.disk[q.seg.start].written = q.disk[q.seg.start].written
  BY <1>1, <1>4, <1>5, <1>6, CloseFileHeld
<1>7. SameSegment(seg, r.seg) /\ r.seg.start = seg.start /\ q.seg.start = seg.start /\ q.seg.end = seg.end
  BY <1>5, <1>6, <1>2 DEF SameSegment
<1>8. Held(r.seg, r.disk, n + 1) /\ (r.ok => Held(r.seg, r.disk, n))
  BY <1>5, <1>6
<1>9. ASSUME r.ok, n = 0, format = "fmp4", seg.part # Rec!NoPart
      PROVE  /\ r.disk[seg.start].creates > 0 /\ Whole(r.disk[seg.start])
             /\ r.disk[seg.start].duration = seg.end - seg.start
             /\ r.disk[seg.start].stream = instance.id /\ r.disk[seg.start].number = seg.number
  <2>1. /\ q.seg.lost = "nothing" /\ r.seg.file = "closed" /\ r.seg.lost = q.seg.lost
        /\ r.disk[seg.start].duration = seg.end - seg.start /\ r.disk[seg.start].written = seg.end - seg.start
    BY <1>5, <1>6, <1>7, <1>9
  <2>2. FileKept(r.seg, r.disk[seg.start], n) /\ r.seg.number = seg.number
    BY <1>7, <1>8, <1>9 DEF Held, Kept, SameSegment
  <2> QED BY <1>9, <2>1, <2>2 DEF FileKept, Saved, Whole
<1> QED BY <1>7, <1>8, <1>9

(* What is in memory only: the part, and that a sample of it was lost.     *)
LEMMA PartKept ==
    ASSUME NEW seg, NEW d, NEW n \in Nat, Kept(seg, d, n), NEW x \in SegmentTypes, x.start = seg.start, x.end = seg.end,
           x.number = seg.number, x.file = seg.file, x.last = seg.last, SegmentBounds(x),
           \/ x.lost = seg.lost
           \/ x.lost = "sample" /\ n > 0 /\ seg.lost # "part" /\ seg.file # "closed"
    PROVE  Kept(x, d, n)
<1>1. FileKept(seg, d[seg.start], n) /\ d \in Disks
  BY DEF Kept
<1>2. format = "fmp4" => Saved(x, d[seg.start], n)
  BY <1>1 DEF FileKept, Saved
<1>3. FileKept(x, d[seg.start], n)
  BY <1>1, <1>2 DEF FileKept
<1> QED BY <1>1, <1>3 DEF Kept

(* A sample that is written to a segment of which nothing is lost yet.     *)
LEMMA SegmentWriteHeld ==
    ASSUME NEW seg, NEW d, Held(seg, d, 0), DoubledTracks = {}, instance.id \in 1 .. MaxInstances, format = "fmp4",
           seg.file # "closed", NEW dts \in 0 .. MaxTime, NEW end \in 0 .. MaxTime, seg.start <= dts, dts <= end,
           NEW w \in Rec!SegmentWrite(seg, d, dts, end)
    PROVE  /\ Held(w.seg, w.disk, 1) /\ (w.ok => Held(w.seg, w.disk, 0) /\ w.seg.part # Rec!NoPart)
           /\ w.seg.start = seg.start /\ w.seg.number = seg.number /\ w.seg.end = Rec!Later(end, seg.end)
           /\ w.seg.file # "closed"
<1> DEFINE later == Rec!Later(end, seg.end)
           longer == [seg EXCEPT !.end = later]
           full == seg.part # Rec!NoPart /\ seg.part.end - seg.part.start >= PartDuration
           Written(r) == Rec!Result(r.ok, [r.seg EXCEPT !.part = IF full THEN Rec!NoPart ELSE @], r.disk)
           Added(r) ==
               IF r.ok THEN { Rec!Result(TRUE, [r.seg EXCEPT !.part = Rec!PartWith(@, dts, end)], r.disk),
                              Rec!Result(FALSE, Rec!Refused(r.seg, dts), r.disk) }
               ELSE {r}
           kept == Rec!Result(TRUE, longer, d)
           x == d[seg.start]
<1>1. PICK r \in IF full THEN Rec!ClosePart(longer, d) ELSE {kept} : w \in Added(Written(r))
  BY DEF Rec!SegmentWrite
<1>2. /\ seg \in SegmentTypes /\ d \in Disks /\ seg.part \in [start : Int, end : Int] /\ MaxTime \in Nat
      /\ Kept(seg, d, 0) /\ seg.file \in {"none", "open"} /\ x.creates \in Nat
  BY KeptTypes DEF Held
<1>3. SegmentBounds(seg) /\ FileKept(seg, x, 0) /\ Reached(seg, x) /\ Saved(seg, x, 0)
  BY DEF Held, Kept, FileKept
<1>4. /\ seg.start \in 0 .. MaxTime /\ seg.end \in 0 .. MaxTime /\ seg.start <= seg.end /\ seg.last \in -1 .. MaxTime
      /\ seg.number \in 0 .. seg.start
      /\ seg.part.start \in -1 .. MaxTime /\ seg.part.end \in -1 .. MaxTime
      /\ seg.part # Rec!NoPart => seg.start <= seg.part.end /\ seg.part.end <= seg.end
      /\ x.written \in 0 .. MaxTime /\ x.written <= seg.end - seg.start /\ seg.lost = "nothing"
  BY <1>3 DEF SegmentBounds, FileKept, FileBounds, Saved
<1>5. later \in 0 .. MaxTime /\ seg.end <= later /\ end <= later /\ (later = end \/ later = seg.end)
  BY <1>2, <1>4 DEF Rec!Later
<1> HIDE DEF later, full
<1>6. /\ longer \in SegmentTypes /\ longer.start = seg.start /\ longer.end = later /\ longer.number = seg.number
      /\ longer.file = seg.file /\ longer.part = seg.part /\ longer.last = seg.last /\ longer.lost = seg.lost
  BY <1>2, <1>5 DEF SegmentTypes
<1> HIDE DEF longer, x
<1>7. Kept(longer, d, 0)
  <2>1. SegmentBounds(longer)
    BY <1>4, <1>5, <1>6 DEF SegmentBounds
  <2>2. Saved(longer, x, 0)
    BY <1>2, <1>3, <1>4, <1>5, <1>6 DEF Saved
  <2>3. FileKept(longer, x, 0)
    BY <1>3, <1>6, <2>2 DEF FileKept
  <2> QED BY <1>2, <1>6, <2>1, <2>3 DEF Kept, x
<1>8. /\ SameSegment(longer, r.seg) /\ r.seg.part = seg.part /\ r.seg.file # "closed" /\ r.ok \in BOOLEAN
      /\ Kept(r.seg, r.disk, 1)
      /\ r.ok => /\ Kept(r.seg, r.disk, 0) /\ r.seg.lost = "nothing"
                 /\ r.disk[seg.start].written = seg.end - seg.start \/ (~full /\ seg.part # Rec!NoPart /\ seg.part.end = seg.end)
      /\ ~r.ok => full /\ (r.seg.lost = "part" \/ r.seg.file = "none")
  <2>1. CASE ~full
    <3>1. r.ok = TRUE /\ r.seg = longer /\ r.disk = d
      BY <1>1, <2>1 DEF Rec!Result
    <3>2. Kept(longer, d, 1)
      <4>1. Kept(longer, d, 0 + 1)
        BY <1>7, KeptTypes
      <4> QED BY <4>1
    <3> QED BY <1>2, <1>3, <1>4, <1>6, <1>7, <2>1, <3>1, <3>2 DEF SameSegment, Reached, x
  <2>2. CASE full
    <3>1. seg.part # Rec!NoPart /\ longer.part # Rec!NoPart /\ r \in Rec!ClosePart(longer, d)
      BY <1>1, <1>6, <2>2 DEF full
    <3>2. /\ Kept(r.seg, r.disk, 0 + 1) /\ SameSegment(longer, r.seg) /\ r.seg.part = longer.part
          /\ longer.file # "closed" => r.seg.file # "closed"
          /\ r.ok => /\ Kept(r.seg, r.disk, 0) /\ r.seg.file = "open" /\ r.seg.lost = longer.lost
                     /\ r.disk[longer.start].written = Rec!Later(longer.part.end - longer.start, d[longer.start].written)
          /\ ~r.ok => \/ r.seg.lost = "part"
                      \/ /\ r.seg.file = longer.file /\ r.seg.file # "open" /\ r.seg.lost = longer.lost
                         /\ r.disk[longer.start].written = d[longer.start].written
      BY <1>7, <3>1, ClosePartKept
    <3>3. r.ok \in BOOLEAN
      <4>1. longer.start \in Rec!Times /\ instance.id \in Nat
        BY <1>7, KeptTypes
      <4>2. \E ok \in BOOLEAN : \E s, e : r = Rec!Result(ok, s, e)
        <5>1. \A s1, s2, s3, e1, e2, e3 :
                  r \in {Rec!Result(TRUE, s1, e1), Rec!Result(FALSE, s2, e2), Rec!Result(FALSE, s3, e3)} =>
                      \E ok \in BOOLEAN : \E s, e : r = Rec!Result(ok, s, e)
          OBVIOUS
        <5>2. ASSUME NEW s, NEW e, r \in Rec!Append(s, e)
              PROVE  \E ok \in BOOLEAN : \E s2, e2 : r = Rec!Result(ok, s2, e2)
          BY Zenon, <5>1, <5>2 DEF Rec!Append
        <5>3. longer.file \in {"none", "open"}
          BY <1>2, <1>6
        <5>4. \/ \E s, e : r = Rec!Result(FALSE, s, e)
              \/ \E s, e : r \in Rec!Append(s, e)
          BY <3>1, <5>3 DEF Rec!ClosePart
        <5> QED BY <5>2, <5>4
      <4> QED BY <4>2 DEF Rec!Result
    <3>4. r.ok => r.disk[seg.start].written = seg.end - seg.start
      BY <1>3, <1>4, <1>6, <3>1, <3>2 DEF Reached, Rec!Later, x
    <3>5. r.seg.file = "none" \/ r.seg.lost = "part" \/ r.ok
      BY <1>2, <1>6, <3>2
    <3> QED BY <1>2, <1>4, <1>6, <2>2, <3>2, <3>3, <3>4, <3>5
  <2> QED BY <2>1, <2>2
<1> DEFINE piece == IF full THEN Rec!NoPart ELSE seg.part
           mid == [r.seg EXCEPT !.part = piece]
<1>9. /\ piece \in [start : Int, end : Int] /\ piece.start \in -1 .. MaxTime /\ piece.end \in -1 .. MaxTime
      /\ piece # Rec!NoPart => piece = seg.part
      /\ full => piece = Rec!NoPart
      /\ ~full => piece = seg.part
  BY <1>2, <1>4 DEF Rec!NoPart
<1>10. r.seg \in SegmentTypes /\ SegmentBounds(r.seg) /\ r.seg.lost \in Losses
  BY <1>8, KeptTypes DEF Kept
<1> HIDE DEF piece, full
<1>11. /\ mid \in SegmentTypes /\ mid.start = seg.start /\ mid.end = later /\ mid.number = seg.number
       /\ mid.file = r.seg.file /\ mid.part = piece /\ mid.last = r.seg.last /\ mid.lost = r.seg.lost
  BY <1>6, <1>8, <1>9, <1>10 DEF SegmentTypes, SameSegment
<1>12. Written(r) = Rec!Result(r.ok, mid, r.disk)
  BY <1>8, <1>10 DEF piece
<1> HIDE DEF mid
<1>13. r.seg.start = seg.start /\ r.seg.end = later /\ r.seg.number = seg.number
  BY <1>6, <1>8 DEF SameSegment
<1>14. SegmentBounds(mid)
  BY <1>4, <1>5, <1>9, <1>10, <1>11, <1>13 DEF SegmentBounds
<1>15. Kept(mid, r.disk, 1) /\ (r.ok => Kept(mid, r.disk, 0))
  BY <1>8, <1>11, <1>13, <1>14, PartKept
<1>16. CASE ~r.ok
  <2>1. w = Rec!Result(r.ok, mid, r.disk)
    <3> DEFINE q == Written(r)
    <3>1. q.ok = r.ok
      BY <1>12 DEF Rec!Result
    <3> HIDE DEF q, Written
    <3>2. w = q
      BY <1>1, <1>16, <3>1 DEF q
    <3> QED BY <1>12, <3>2 DEF q
  <2>2. w.ok = r.ok /\ w.seg = mid /\ w.disk = r.disk
    BY <2>1, PartsOfResult
  <2>3. Covered(mid, r.disk[seg.start])
    BY <1>8, <1>9, <1>11, <1>16 DEF Covered
  <2> QED BY <1>8, <1>11, <1>15, <1>16, <2>2, <2>3 DEF Held, later
<1>17. CASE r.ok
  <2> DEFINE more == Rec!PartWith(piece, dts, end)
             good == [mid EXCEPT !.part = more]
             bad == Rec!Refused(mid, dts)
             less == IF piece = Rec!NoPart THEN [start |-> dts, end |-> mid.start] ELSE piece
             y == [mid EXCEPT !.part = less]
  <2>1. w = Rec!Result(TRUE, good, r.disk) \/ w = Rec!Result(FALSE, bad, r.disk)
    <3> DEFINE q == Written(r)
    <3>1. q.ok = r.ok /\ q.seg = mid /\ q.disk = r.disk
      BY <1>12, PartsOfResult
    <3> HIDE DEF q, Written
    <3>2. \/ w = Rec!Result(TRUE, [q.seg EXCEPT !.part = Rec!PartWith(@, dts, end)], q.disk)
          \/ w = Rec!Result(FALSE, Rec!Refused(q.seg, dts), q.disk)
      BY <1>1, <1>17, <3>1 DEF q
    <3>3. [mid EXCEPT !.part = Rec!PartWith(@, dts, end)] = good
      BY <1>11
    <3> QED BY <3>1, <3>2, <3>3
  <2>2. piece # Rec!NoPart => seg.start <= piece.end /\ piece.end <= seg.end /\ piece.start \in -1 .. MaxTime
                              /\ piece.end \in 0 .. MaxTime /\ piece \in [start : Int, end : Int]
    BY <1>2, <1>4, <1>9
  <2>3. /\ more \in [start : Int, end : Int] /\ more.start \in -1 .. MaxTime /\ more # Rec!NoPart
        /\ more.end = (IF piece = Rec!NoPart THEN end ELSE Rec!Later(end, piece.end))
    <3>1. CASE piece = Rec!NoPart
      BY <1>2, <1>4, <3>1 DEF Rec!PartWith, Rec!NoPart
    <3>2. CASE piece # Rec!NoPart
      <4> DEFINE k == Rec!Later(end, piece.end)
      <4>1. k \in 0 .. MaxTime /\ more = [piece EXCEPT !.end = k]
        BY <1>2, <1>4, <2>2, <3>2 DEF Rec!PartWith, Rec!Later
      <4> HIDE DEF k, more
      <4>2. more \in [start : Int, end : Int] /\ more.start = piece.start /\ more.end = k
        BY <2>2, <3>2, <4>1
      <4>3. more # Rec!NoPart
        BY <4>1, <4>2, <1>2 DEF Rec!NoPart
      <4> QED BY <2>2, <3>2, <4>2, <4>3 DEF k
    <3> QED BY <3>1, <3>2
  <2>4. seg.start <= more.end /\ more.end <= later /\ more.end \in 0 .. MaxTime
    BY <1>2, <1>4, <1>5, <2>2, <2>3 DEF Rec!Later
  <2>5. r.disk[seg.start].written = later - seg.start \/ more.end = later
    BY <1>2, <1>4, <1>5, <1>8, <1>9, <1>17, <2>2, <2>3 DEF Rec!Later, later
  <2>6. less \in [start : Int, end : Int] /\ less.start \in -1 .. MaxTime /\ less # Rec!NoPart
        /\ seg.start <= less.end /\ less.end <= later /\ less.end \in 0 .. MaxTime
    BY <1>2, <1>4, <1>5, <1>11, <2>2 DEF Rec!NoPart
  <2> HIDE DEF more
  <2>7. /\ good \in SegmentTypes /\ good.start = seg.start /\ good.end = later /\ good.number = seg.number
        /\ good.file = r.seg.file /\ good.part = more /\ good.last = mid.last /\ good.lost = mid.lost
    BY <1>11, <2>3 DEF SegmentTypes
  <2>8. bad = [y EXCEPT !.lost = "sample"]
    BY <1>11 DEF Rec!Refused
  <2> HIDE DEF less, good, bad
  <2>9. /\ y \in SegmentTypes /\ y.start = seg.start /\ y.end = later /\ y.number = seg.number
        /\ y.file = r.seg.file /\ y.part = less /\ y.last = mid.last
    BY <1>11, <2>6 DEF SegmentTypes
  <2> HIDE DEF y
  <2>10. /\ bad \in SegmentTypes /\ bad.start = seg.start /\ bad.end = later /\ bad.number = seg.number
         /\ bad.file = r.seg.file /\ bad.part = less /\ bad.last = mid.last /\ bad.lost = "sample"
    BY <2>8, <2>9 DEF SegmentTypes, Losses
  <2>11. SegmentBounds(good) /\ SegmentBounds(bad)
    BY <1>11, <1>14, <2>3, <2>4, <2>6, <2>7, <2>10 DEF SegmentBounds
  <2>12. Kept(good, r.disk, 0)
    BY <1>11, <1>15, <1>17, <2>7, <2>11, PartKept
  <2>13. Kept(good, r.disk, 1)
    <3>1. Kept(good, r.disk, 0 + 1)
      BY <2>12, KeptTypes
    <3> QED BY <3>1
  <2>14. Kept(bad, r.disk, 1)
    BY <1>8, <1>11, <1>15, <1>17, <2>10, <2>11, PartKept
  <2>15. Reached(good, r.disk[seg.start])
    BY <2>3, <2>5, <2>7 DEF Reached
  <2>16. Held(good, r.disk, 0) /\ Held(good, r.disk, 1)
    BY <2>7, <2>12, <2>13, <2>15 DEF Held, Covered
  <2>17. Held(bad, r.disk, 1)
    BY <2>10, <2>14 DEF Held, Covered
  <2>18. CASE w = Rec!Result(TRUE, good, r.disk)
    <3>1. w.ok = TRUE /\ w.seg = good /\ w.disk = r.disk
      BY <2>18 DEF Rec!Result
    <3> QED BY <1>8, <2>3, <2>7, <2>16, <3>1 DEF later
  <2>19. CASE w = Rec!Result(FALSE, bad, r.disk)
    <3>1. w.ok = FALSE /\ w.seg = bad /\ w.disk = r.disk
      BY <2>19 DEF Rec!Result
    <3> QED BY <1>8, <2>10, <2>17, <3>1 DEF later
  <2> QED BY <2>1, <2>18, <2>19
<1> QED BY <1>8, <1>16, <1>17
-----------------------------------------------------------------------------
(* The other segments: each is over before the next stream begins, and     *)
(* goes on where the one before it in its stream ends; that one is whole.  *)
Others(seg) == Rec!Times \ {seg.start}
Length(file) == IF Rec!CanBeParsed(file) THEN file.duration ELSE 0
Finished(d, s) == s + Rec!Later(Length(d[s]), d[s].written)
Sane(file) ==
    /\ -1 <= file.duration /\ 0 <= file.written /\ 0 < file.stream /\ (0 <= file.duration => file.header)
    /\ ~Rec!CanBeParsed(file) => file.failed
    /\ Rec!CanBeParsed(file) /\ file.lost = "nothing" => file.duration <= file.written
ComesBefore(d, s, stream, n, start) ==
    \/ d[s].stream = stream /\ d[s].number < n /\ Whole(d[s])
    \/ d[s].stream < stream /\ Finished(d, s) < start
Continues(d, p, stream, n, start) ==
    /\ d[p].creates > 0 /\ d[p].stream = stream /\ d[p].number + 1 = n
    /\ p < start /\ start <= Finished(d, p) /\ Finished(d, p) <= start + Tolerance
Sorted(d, S) ==
    \A s \in S : d[s].creates > 0 =>
        /\ Sane(d[s])
        /\ \A q \in S : d[q].creates > 0 /\ s < q => ComesBefore(d, s, d[q].stream, d[q].number, q)
        /\ d[s].number > 0 => \E p \in S : Continues(d, p, d[s].stream, d[s].number, s)
EndsBy(d, S, c) == \A s \in S : d[s].creates > 0 => \E t \in Tracks : Finished(d, s) <= c[t]
Follows(seg, d, id) ==
    /\ \A s \in Others(seg) : d[s].creates > 0 => ComesBefore(d, s, id, seg.number, seg.start)
    /\ seg.number > 0 => \E p \in Others(seg) : Continues(d, p, id, seg.number, seg.start)
GoesOn(seg, d, c, id) == Sorted(d, Others(seg)) /\ EndsBy(d, Others(seg), c) /\ Follows(seg, d, id)
OthersFine(seg, d) == \A s \in Others(seg) : FileBounds(d[s]) /\ d[s].creates <= 3

(* Writing a segment leaves the others as they are.                        *)
LEMMA OthersWrites ==
    ASSUME NEW seg, NEW d, NEW r, Writes(seg, d, r), r.seg.number = seg.number, NEW c, NEW id
    PROVE  /\ OthersFine(seg, d) => OthersFine(r.seg, r.disk)
           /\ GoesOn(seg, d, c, id) => GoesOn(r.seg, r.disk, c, id)
<1>1. Others(r.seg) = Others(seg) /\ \A s \in Others(seg) : r.disk[s] = d[s]
  BY DEF Writes, OthersKept, Others
<1>2. OthersFine(seg, d) => OthersFine(r.seg, r.disk)
  BY <1>1 DEF OthersFine
<1>3. ASSUME GoesOn(seg, d, c, id) PROVE GoesOn(r.seg, r.disk, c, id)
  <2>1. \A s \in Others(seg) : Finished(r.disk, s) = Finished(d, s)
    BY <1>1 DEF Finished
  <2>2. /\ \A s \in Others(seg) : \A k, n, start : ComesBefore(r.disk, s, k, n, start) <=> ComesBefore(d, s, k, n, start)
        /\ \A s \in Others(seg) : \A k, n, start : Continues(r.disk, s, k, n, start) <=> Continues(d, s, k, n, start)
    BY <1>1, <2>1 DEF ComesBefore, Continues
  <2>3. Sorted(r.disk, Others(seg))
    BY <1>1, <1>3, <2>2 DEF Sorted, GoesOn
  <2>4. EndsBy(r.disk, Others(seg), c)
    BY <1>1, <1>3, <2>1 DEF EndsBy, GoesOn
  <2>5. Follows(r.seg, r.disk, id)
    <3>1. r.seg.start = seg.start
      BY DEF Writes
    <3> QED BY <1>1, <1>3, <2>2, <3>1 DEF Follows, GoesOn
  <2> QED BY <1>1, <2>3, <2>4, <2>5 DEF GoesOn
<1> QED BY <1>2, <1>3

(* What a file and its name are.                                           *)
LEMMA FileIs ==
    ASSUME NEW file \in FileTypes
    PROVE  /\ file.stream \in Nat /\ file.number \in Int /\ file.duration \in Int /\ file.written \in Int
           /\ file.creates \in Nat /\ file.completes \in Nat /\ file.lost \in Losses
           /\ file.header \in BOOLEAN /\ file.failed \in BOOLEAN /\ Length(file) \in Int
<1>1. /\ file.stream \in Nat /\ file.number \in Int /\ file.duration \in Int /\ file.written \in Int
      /\ file.creates \in Nat /\ file.completes \in Nat /\ file.lost \in Losses
      /\ file.header \in BOOLEAN /\ file.failed \in BOOLEAN
  BY DEF FileTypes
<1> QED BY <1>1 DEF Length

LEMMA DiskIs ==
    ASSUME NEW d \in Disks, DoubledTracks = {}
    PROVE  \A s \in Rec!Times : /\ s \in Nat /\ d[s].stream \in Nat /\ d[s].number \in Int /\ d[s].duration \in Int
                                /\ d[s].written \in Int /\ d[s].creates \in Nat /\ d[s].completes \in Nat
                                /\ Finished(d, s) \in Int
<1> TAKE s \in Rec!Times
<1>1. s \in Nat
  BY TimesAre
<1> DEFINE file == d[s]
<1>2. file \in FileTypes
  BY DEF Disks
<1> HIDE DEF file
<1>3. /\ file.stream \in Nat /\ file.number \in Int /\ file.duration \in Int /\ file.written \in Int
      /\ file.creates \in Nat /\ file.completes \in Nat /\ Length(file) \in Int
  BY <1>2, FileIs
<1>4. s + Rec!Later(Length(file), file.written) \in Int
  BY <1>1, <1>3 DEF Rec!Later
<1> QED BY <1>1, <1>3, <1>4 DEF file, Finished

(* A file that is over, as far as what one reads of it.                    *)
LEMMA WholeEnds ==
    ASSUME NEW d \in Disks, NEW s \in Rec!Times, DoubledTracks = {}, Whole(d[s]), d[s].duration >= 0
    PROVE  Finished(d, s) = s + d[s].duration
<1> DEFINE file == d[s]
<1>1. file \in FileTypes /\ Whole(file) /\ file.duration >= 0
  <2>1. file \in FileTypes
    BY DEF Disks
  <2>2. Whole(file) /\ file.duration >= 0
    OBVIOUS
  <2> QED BY <2>1, <2>2
<1> HIDE DEF file
<1>2. file.duration \in Int /\ file.written \in Int
  BY <1>1, FileIs
<1>3. file.header /\ file.written = file.duration
  BY <1>1 DEF Whole
<1>4. Rec!Later(Length(file), file.written) = file.duration
  BY <1>1, <1>2, <1>3 DEF Length, Rec!CanBeParsed, Rec!Later
<1> QED BY <1>4 DEF Finished, file

LEMMA EndsByLater ==
    ASSUME NEW d \in Disks, NEW S \in SUBSET Rec!Times, NEW c \in [Tracks -> 0 .. MaxTime], NEW e \in [Tracks -> 0 .. MaxTime],
           EndsBy(d, S, c), \A t \in Tracks : c[t] <= e[t], DoubledTracks = {}
    PROVE  EndsBy(d, S, e)
<1>1. ASSUME NEW s \in S, d[s].creates > 0 PROVE \E t \in Tracks : Finished(d, s) <= e[t]
  <2>1. PICK t \in Tracks : Finished(d, s) <= c[t]
    BY <1>1 DEF EndsBy
  <2>2. Finished(d, s) \in Int
    BY DiskIs
  <2>3. c[t] \in Int /\ e[t] \in Int /\ c[t] <= e[t]
    BY TimesAre
  <2> QED BY <2>1, <2>2, <2>3
<1> QED BY <1>1 DEF EndsBy

(* The next segment of the stream, after one that is complete.             *)
LEMMA NextGoesOn ==
    ASSUME NEW seg, NEW d, NEW c, NEW id \in Nat, id > 0, GoesOn(seg, d, c, id), DoubledTracks = {}, d \in Disks,
           seg.start \in Rec!Times, seg.end \in Int, seg.start <= seg.end, seg.number \in Nat,
           d[seg.start].creates > 0, d[seg.start].stream = id, d[seg.start].number = seg.number, Whole(d[seg.start]),
           d[seg.start].duration = seg.end - seg.start, \E t \in Tracks : seg.end <= c[t],
           \A s \in Rec!Times : d[s].creates > 0 => s <= seg.start,
           NEW new, new.start \in Rec!Times, new.number = seg.number + 1, seg.start < new.start,
           new.start <= seg.end, seg.end <= new.start + Tolerance
    PROVE  GoesOn(new, d, c, id)
<1> DEFINE x == seg.start
<1>1. \A s \in Rec!Times : /\ s \in Nat /\ d[s].stream \in Nat /\ d[s].number \in Int /\ d[s].duration \in Int
                           /\ d[s].creates \in Nat /\ Finished(d, s) \in Int
  BY DiskIs
<1>2. x \in Nat /\ new.start \in Nat /\ Finished(d, x) = seg.end /\ x \in Others(new) /\ Sane(d[x])
  <2>1. x \in Nat /\ new.start \in Nat /\ x \in Others(new) /\ d[x].duration = seg.end - x /\ seg.end - x \in Nat
    BY <1>1 DEF Others
  <2>2. Finished(d, x) = x + d[x].duration
    <3>1. d[x].duration \in Nat
      BY <2>1
    <3>2. d[x].duration >= 0 /\ x \in Rec!Times /\ Whole(d[x])
      BY <3>1
    <3> HIDE DEF x
    <3> QED BY <3>2, WholeEnds
  <2>3. d[x].header /\ d[x].lost = "nothing" /\ d[x].duration = d[x].written
    BY DEF Whole
  <2>4. Sane(d[x])
    BY <2>1, <2>3 DEF Sane, Rec!CanBeParsed
  <2> QED BY <2>1, <2>2, <2>4
<1>3. \A s \in Others(new) : d[s].creates > 0 => s = x \/ (s \in Others(seg) /\ s < x)
  BY <1>1, <1>2 DEF Others
<1>4. \A s \in Others(seg) : d[s].creates > 0 => s \in Others(new)
  BY <1>1, <1>2 DEF Others
<1>5. ASSUME NEW s \in Others(new), d[s].creates > 0
      PROVE  /\ Sane(d[s])
             /\ \A q \in Others(new) : d[q].creates > 0 /\ s < q => ComesBefore(d, s, d[q].stream, d[q].number, q)
             /\ d[s].number > 0 => \E p \in Others(new) : Continues(d, p, d[s].stream, d[s].number, s)
             /\ ComesBefore(d, s, id, new.number, new.start)
             /\ \E t \in Tracks : Finished(d, s) <= c[t]
  <2>1. CASE s = x
    <3>1. Sane(d[s])
      BY <1>2, <2>1
    <3>2. ASSUME NEW q \in Others(new), d[q].creates > 0, s < q PROVE FALSE
      BY <1>1, <1>2, <1>3, <2>1, <3>2 DEF Others
    <3>3. d[s].number > 0 => \E p \in Others(new) : Continues(d, p, d[s].stream, d[s].number, s)
      <4>1. seg.number > 0 => \E p \in Others(seg) : Continues(d, p, id, seg.number, x)
        BY DEF GoesOn, Follows
      <4>2. \A p \in Others(seg) : Continues(d, p, id, seg.number, x) => p \in Others(new)
        BY <1>4 DEF Continues
      <4> QED BY <2>1, <4>1, <4>2
    <3>4. ComesBefore(d, s, id, new.number, new.start)
      BY <2>1 DEF ComesBefore
    <3> QED BY <1>2, <2>1, <3>1, <3>2, <3>3, <3>4
  <2>2. CASE s \in Others(seg) /\ s < x
    <3>1. Sane(d[s]) /\ \E t \in Tracks : Finished(d, s) <= c[t]
      BY <1>5, <2>2 DEF GoesOn, Sorted, EndsBy
    <3>2. ComesBefore(d, s, id, seg.number, x)
      BY <1>5, <2>2 DEF GoesOn, Follows
    <3>3. ASSUME NEW q \in Others(new), d[q].creates > 0, s < q PROVE ComesBefore(d, s, d[q].stream, d[q].number, q)
      <4>1. CASE q = x
        BY <3>2, <4>1
      <4>2. CASE q \in Others(seg)
        BY <1>5, <2>2, <3>3, <4>2 DEF GoesOn, Sorted
      <4> QED BY <1>3, <3>3, <4>1, <4>2
    <3>4. d[s].number > 0 => \E p \in Others(new) : Continues(d, p, d[s].stream, d[s].number, s)
      <4>1. d[s].number > 0 => \E p \in Others(seg) : Continues(d, p, d[s].stream, d[s].number, s)
        BY <1>5, <2>2 DEF GoesOn, Sorted
      <4>2. \A p \in Others(seg) : Continues(d, p, d[s].stream, d[s].number, s) => p \in Others(new)
        BY <1>4 DEF Continues
      <4> QED BY <4>1, <4>2
    <3>5. ComesBefore(d, s, id, new.number, new.start)
      <4>1. s \in Rec!Times /\ Finished(d, s) \in Int
        BY <1>1 DEF Others, Finished
      <4> QED BY <1>1, <1>2, <3>2, <4>1 DEF ComesBefore
    <3> QED BY <3>1, <3>3, <3>4, <3>5
  <2> QED BY <1>3, <1>5, <2>1, <2>2
<1>6. Continues(d, x, id, new.number, new.start)
  BY <1>2 DEF Continues
<1>7. Sorted(d, Others(new)) /\ EndsBy(d, Others(new), c)
  BY <1>5 DEF Sorted, EndsBy
<1>8. Follows(new, d, id)
  BY <1>2, <1>5, <1>6 DEF Follows
<1> QED BY <1>7, <1>8 DEF GoesOn

(* The first segment of a stream.                                          *)
LEMMA FirstGoesOn ==
    ASSUME NEW d \in Disks, NEW c, NEW id \in Nat, DoubledTracks = {}, Sorted(d, Rec!Times), EndsBy(d, Rec!Times, c),
           NEW new, new.start \in Rec!Times, new.number = 0, d[new.start].creates = 0,
           \A s \in Rec!Times : d[s].creates > 0 => d[s].stream < id /\ Finished(d, s) < new.start
    PROVE  GoesOn(new, d, c, id)
<1>1. Others(new) \subseteq Rec!Times /\ \A s \in Rec!Times : d[s].creates > 0 => s \in Others(new)
  BY DEF Others
<1>2. \A p \in Rec!Times : \A k, n, start : Continues(d, p, k, n, start) => p \in Others(new)
  BY <1>1 DEF Continues
<1>3. Sorted(d, Others(new))
  BY <1>1, <1>2 DEF Sorted
<1>4. EndsBy(d, Others(new), c)
  BY <1>1 DEF EndsBy
<1>5. Follows(new, d, id)
  BY <1>1 DEF Follows, ComesBefore
<1> QED BY <1>3, <1>4, <1>5 DEF GoesOn

(* When the segment is over the whole disk is sorted.                      *)
LEMMA AllSorted ==
    ASSUME NEW seg, NEW d, NEW c, NEW id \in Nat, GoesOn(seg, d, c, id), DoubledTracks = {}, d \in Disks,
           seg.start \in Rec!Times, seg.end \in Int, seg.number \in Nat, c \in [Tracks -> 0 .. MaxTime],
           d[seg.start].creates > 0 =>
               /\ d[seg.start].stream = id /\ d[seg.start].number = seg.number /\ Sane(d[seg.start])
               /\ Finished(d, seg.start) <= seg.end,
           \E t \in Tracks : seg.end <= c[t],
           \A s \in Rec!Times : d[s].creates > 0 => s <= seg.start
    PROVE  /\ Sorted(d, Rec!Times) /\ EndsBy(d, Rec!Times, c)
           /\ \A s \in Rec!Times : d[s].creates > 0 => d[s].stream <= id
<1> DEFINE x == seg.start
<1>1. \A s \in Rec!Times : /\ s \in Nat /\ d[s].stream \in Nat /\ d[s].number \in Int /\ d[s].duration \in Int
                           /\ d[s].creates \in Nat /\ Finished(d, s) \in Int
  BY DiskIs
<1>2. \A s \in Rec!Times : s = x \/ s \in Others(seg)
  BY DEF Others
<1>3. Others(seg) \subseteq Rec!Times
  BY DEF Others
<1>4. ASSUME NEW s \in Rec!Times, d[s].creates > 0
      PROVE  /\ Sane(d[s])
             /\ \A q \in Rec!Times : d[q].creates > 0 /\ s < q => ComesBefore(d, s, d[q].stream, d[q].number, q)
             /\ d[s].number > 0 => \E p \in Rec!Times : Continues(d, p, d[s].stream, d[s].number, s)
             /\ \E t \in Tracks : Finished(d, s) <= c[t]
             /\ d[s].stream <= id
  <2>1. CASE s = x
    <3>1. Sane(d[s]) /\ d[s].stream = id /\ d[s].number = seg.number /\ \E t \in Tracks : Finished(d, s) <= c[t]
      BY <1>1, <1>4, <2>1
    <3>2. ASSUME NEW q \in Rec!Times, d[q].creates > 0, s < q PROVE FALSE
      BY <1>1, <2>1, <3>2
    <3>3. seg.number > 0 => \E p \in Others(seg) : Continues(d, p, id, seg.number, x)
      BY DEF GoesOn, Follows
    <3> QED BY <1>3, <2>1, <3>1, <3>2, <3>3
  <2>2. CASE s \in Others(seg)
    <3>1. Sane(d[s]) /\ \E t \in Tracks : Finished(d, s) <= c[t]
      BY <1>4, <2>2 DEF GoesOn, Sorted, EndsBy
    <3>2. ComesBefore(d, s, id, seg.number, x)
      BY <1>4, <2>2 DEF GoesOn, Follows
    <3>3. ASSUME NEW q \in Rec!Times, d[q].creates > 0, s < q PROVE ComesBefore(d, s, d[q].stream, d[q].number, q)
      <4>1. CASE q = x
        BY <3>2, <3>3, <4>1
      <4>2. CASE q \in Others(seg)
        BY <1>4, <2>2, <3>3, <4>2 DEF GoesOn, Sorted
      <4> QED BY <1>2, <4>1, <4>2
    <3>4. d[s].number > 0 => \E p \in Rec!Times : Continues(d, p, d[s].stream, d[s].number, s)
      BY <1>3, <1>4, <2>2 DEF GoesOn, Sorted
    <3>5. d[s].stream <= id
      BY <1>1, <3>2 DEF ComesBefore
    <3> QED BY <3>1, <3>3, <3>4, <3>5
  <2> QED BY <1>2, <2>1, <2>2
<1> QED BY <1>4 DEF Sorted, EndsBy

(* A segment that is new.                                                  *)
LEMMA NewHeld ==
    ASSUME NEW d \in Disks, DoubledTracks = {}, NEW p \in 0 .. MaxTime, NEW k \in 0 .. p,
           NEW piece \in [start : -1 .. MaxTime, end : -1 .. MaxTime], format = "fmp4" => piece = Rec!NoPart,
           FileBounds(d[p]), d[p].creates = 0, d[p].completes = 0, NEW new,
           new = [start |-> p, end |-> p, number |-> k, file |-> "none", part |-> piece, last |-> -1, lost |-> "nothing"]
    PROVE  Held(new, d, 0)
<1>1. MaxTime \in Nat /\ p \in Rec!Times
  BY TimesAre
<1>2. /\ new.start = p /\ new.end = p /\ new.number = k /\ new.file = "none" /\ new.part = piece /\ new.last = -1
      /\ new.lost = "nothing"
  OBVIOUS
<1>3. new \in SegmentTypes
  BY <1>1 DEF SegmentTypes, Losses
<1>4. SegmentBounds(new)
  BY <1>1, <1>2 DEF SegmentBounds
<1> DEFINE x == d[p]
<1>5. x.creates = 0 /\ x.completes = 0 /\ FileBounds(x) /\ x.written = 0 /\ ~x.header /\ x.duration = -1
  BY DEF FileBounds
<1> HIDE DEF x
<1>6. FileKept(new, x, 0)
  BY <1>1, <1>2, <1>5 DEF FileKept, Saved
<1>7. Reached(new, x)
  BY <1>1, <1>2, <1>5 DEF Reached
<1> QED BY <1>2, <1>3, <1>4, <1>6, <1>7 DEF Held, Kept, Covered, x
-----------------------------------------------------------------------------
(* The recorder, between two of its steps.                                 *)

(* The tracks are in step; a sample that is kept is the last of its track; *)
(* what was there when the segment was begun is not older than it.         *)
StepInv ==
    /\ dropped = {} /\ silent \subseteq Tracks /\ hasVideo \in BOOLEAN /\ instance.id \in 1 .. MaxInstances
    /\ \A t, u \in Tracks : clock[t] - clock[u] <= Tolerance
    /\ format = "mpegts" => \A t \in Tracks : next[t] = Rec!Nothing
    /\ instance.at = "reading" => \A t \in Tracks : next[t] = Rec!Nothing \/ next[t].dts = clock[t]
    /\ segment = Rec!NoSegment => silent = Tracks
    /\ segment # Rec!NoSegment /\ instance.at = "reading" =>
           \A t \in Tracks \ silent : next[t] # Rec!Nothing /\ segment.start <= next[t].dts
HeldInv ==
    /\ segment # Rec!NoSegment =>
          /\ Held(segment, disk, 1)
          /\ instance.at # "failed" => Held(segment, disk, 0) /\ segment.file # "closed"
          /\ \E t \in Tracks : segment.end <= clock[t]
          /\ format = "fmp4" => number = segment.number + 1
          /\ format = "mpegts" => segment.number = 0
    /\ segment = Rec!NoSegment \/ format = "mpegts" => number = 0
    /\ OthersFine(segment, disk)
OverBy(d, c, n) ==
    \A s \in Rec!Times : d[s].creates > 0 =>
        \A t \in Tracks : Finished(d, s) <= c[t] /\ (n[t] # Rec!Nothing => Finished(d, s) < n[t].dts)
OrderInv ==
    format = "fmp4" =>
        /\ segment # Rec!NoSegment => GoesOn(segment, disk, clock, instance.id)
        /\ segment = Rec!NoSegment =>
              /\ Sorted(disk, Rec!Times) /\ EndsBy(disk, Rec!Times, clock)
              /\ \A s \in Rec!Times : disk[s].creates > 0 => disk[s].stream <= instance.id
              /\ instance.at = "reading" =>
                    /\ \A s \in Rec!Times : disk[s].creates > 0 => disk[s].stream < instance.id
                    /\ OverBy(disk, clock, next)
RecordingInv == RecorderInv /\ StepInv /\ HeldInv /\ OrderInv

LEMMA RecordingFirst ==
    ASSUME DoubledTracks = {}, Rec!Init
    PROVE  RecordingInv
<1> USE DEF Rec!Init
<1>1. RecorderInv
  BY RecorderFirst
<1>2. /\ MaxTime \in Nat /\ MaxTime > 0 /\ Tolerance \in Nat /\ MaxInstances \in Nat /\ MaxInstances > 0
  BY MediaAssumption DEF Rec!TimesAssumption
<1>3. StepInv
  <2>1. dropped = {} /\ silent = Tracks /\ hasVideo = FALSE /\ instance.id = 1 /\ segment = Rec!NoSegment
    OBVIOUS
  <2>2. \A t \in Tracks : next[t] = Rec!Nothing /\ clock[t] = 0
    OBVIOUS
  <2>3. \A t, u \in Tracks : clock[t] - clock[u] <= Tolerance
    BY <1>2, <2>2
  <2>4. instance.id \in 1 .. MaxInstances
    BY <1>2, <2>1
  <2> HIDE DEF Rec!Init
  <2> QED BY <2>1, <2>2, <2>3, <2>4 DEF StepInv
<1>4. \A s \in Rec!Times : disk[s] = Rec!NoFile
  OBVIOUS
<1>5. FileBounds(Rec!NoFile) /\ Rec!NoFile.creates = 0 /\ Rec!NoFile.completes = 0
  BY <1>2 DEF Rec!NoFile, FileBounds
<1>6. HeldInv
  BY <1>4, <1>5 DEF HeldInv, OthersFine, Others
<1>7. OrderInv
  BY <1>4, <1>5 DEF OrderInv, Sorted, EndsBy, OverBy
<1> QED BY <1>1, <1>3, <1>6, <1>7 DEF RecordingInv

(* After a step the segment is held, and goes on.                          *)
LEMMA SegmentKept ==
    ASSUME DoubledTracks = {}, NEW seg, NEW d, segment' = seg, disk' = d, format' = format, instance'.id = instance.id,
           seg # Rec!NoSegment, Held(seg, d, 1),
           instance'.at # "failed" => Held(seg, d, 0) /\ seg.file # "closed",
           \E t \in Tracks : seg.end <= clock'[t], OthersFine(seg, d),
           format = "fmp4" => number' = seg.number + 1 /\ GoesOn(seg, d, clock', instance.id),
           format = "mpegts" => number' = 0 /\ seg.number = 0,
           format \in {"fmp4", "mpegts"}
    PROVE  HeldInv' /\ OrderInv'
<1>1. Held(segment, disk, 1)' /\ (instance'.at # "failed" => Held(segment, disk, 0)' /\ segment'.file # "closed")
  BY DEF Held, Kept, SegmentBounds, FileKept, FileBounds, Saved, Covered, Reached
<1>2. OthersFine(segment, disk)'
  BY DEF OthersFine, Others, FileBounds
<1>3. format' = "fmp4" => GoesOn(segment, disk, clock, instance.id)'
  BY Zenon DEF GoesOn, Sorted, EndsBy, Follows
<1>4. HeldInv'
  BY <1>1, <1>2 DEF HeldInv
<1>5. OrderInv'
  BY <1>3 DEF OrderInv
<1> QED BY <1>4, <1>5

(* A step that leaves the segment and the disk as they are.                *)
LEMMA LeftAsItIs ==
    ASSUME RecordingInv, DoubledTracks = {}, UNCHANGED <<format, segment, disk, number>>, instance'.id = instance.id,
           instance'.at = "reading" => instance.at = "reading", instance'.at # "failed" => instance.at # "failed",
           clock' \in [Tracks -> 0 .. MaxTime], \A u \in Tracks : clock[u] <= clock'[u],
           next \in [Tracks -> [dts : Int, sync : BOOLEAN]], next' \in [Tracks -> [dts : Int, sync : BOOLEAN]],
           \A u \in Tracks : next'[u] = next[u] \/ clock[u] < next'[u].dts
    PROVE  HeldInv' /\ OrderInv'
<1>1. /\ clock \in [Tracks -> 0 .. MaxTime] /\ disk \in Disks /\ MaxTime \in Nat /\ format \in {"fmp4", "mpegts"}
      /\ \A u \in Tracks : clock[u] \in Nat /\ clock'[u] \in Nat
      /\ \A s \in Rec!Times : Finished(disk, s) \in Int
  <2>1. /\ clock \in [Tracks -> 0 .. MaxTime] /\ disk \in Disks /\ MaxTime \in Nat /\ format \in {"fmp4", "mpegts"}
        /\ \A u \in Tracks : clock[u] \in Nat /\ clock'[u] \in Nat
    BY TimesAre DEF RecordingInv, RecorderInv, RecorderTypes
  <2> QED BY <2>1, DiskIs
<1>2. CASE segment # Rec!NoSegment
  <2>1. Held(segment, disk, 1) /\ (instance'.at # "failed" => Held(segment, disk, 0) /\ segment.file # "closed")
        /\ OthersFine(segment, disk)
        /\ (format = "fmp4" => number' = segment.number + 1) /\ (format = "mpegts" => number' = 0 /\ segment.number = 0)
    BY <1>2 DEF RecordingInv, HeldInv
  <2>2. \E t \in Tracks : segment.end <= clock'[t]
    <3>1. PICK t \in Tracks : segment.end <= clock[t]
      BY <1>2 DEF RecordingInv, HeldInv
    <3>2. segment.end \in Int
      BY <2>1 DEF Held, Kept, SegmentTypes
    <3> QED BY <1>1, <3>1, <3>2
  <2>3. format = "fmp4" => GoesOn(segment, disk, clock', instance.id)
    <3>1. ASSUME format = "fmp4" PROVE GoesOn(segment, disk, clock', instance.id)
      <4>1. Sorted(disk, Others(segment)) /\ EndsBy(disk, Others(segment), clock) /\ Follows(segment, disk, instance.id)
        BY <1>2, <3>1 DEF RecordingInv, OrderInv, GoesOn
      <4>2. Others(segment) \in SUBSET Rec!Times
        BY DEF Others
      <4> DEFINE S == Others(segment)  k == clock'
      <4>3. EndsBy(disk, S, clock) /\ k \in [Tracks -> 0 .. MaxTime] /\ \A t \in Tracks : clock[t] <= k[t]
        BY <4>1
      <4> HIDE DEF S, k
      <4>4. EndsBy(disk, S, k)
        BY <1>1, <4>2, <4>3, EndsByLater DEF S
      <4> QED BY <4>1, <4>4 DEF GoesOn, S, k
    <3> QED BY <3>1
  <2> DEFINE seg == segment  d == disk
  <2>4. segment' = seg /\ disk' = d
    OBVIOUS
  <2> QED BY <1>1, <1>2, <2>1, <2>2, <2>3, <2>4, SegmentKept
<1>3. CASE segment = Rec!NoSegment
  <2>1. HeldInv'
    BY <1>3 DEF RecordingInv, HeldInv, OthersFine, Others, FileBounds
  <2>2. ASSUME format = "fmp4"
        PROVE  EndsBy(disk, Rec!Times, clock') /\ (instance'.at = "reading" => OverBy(disk, clock', next'))
    <3> DEFINE S == Rec!Times  k == clock'  x == next'
    <3>1. EndsBy(disk, S, clock) /\ k \in [Tracks -> 0 .. MaxTime] /\ S \in SUBSET Rec!Times
          /\ \A t \in Tracks : clock[t] <= k[t]
      BY <1>3, <2>2 DEF RecordingInv, OrderInv
    <3>2. EndsBy(disk, S, k)
      <4> HIDE DEF S, k
      <4> QED BY <1>1, <3>1, EndsByLater
    <3>3. ASSUME instance'.at = "reading" PROVE OverBy(disk, k, x)
      <4>1. OverBy(disk, clock, next)
        BY <1>3, <2>2, <3>3 DEF RecordingInv, OrderInv
      <4>2. ASSUME NEW s \in Rec!Times, disk[s].creates > 0, NEW t \in Tracks
            PROVE  Finished(disk, s) <= k[t] /\ (x[t] # Rec!Nothing => Finished(disk, s) < x[t].dts)
        <5>1. Finished(disk, s) <= clock[t] /\ (next[t] # Rec!Nothing => Finished(disk, s) < next[t].dts)
          BY <4>1, <4>2 DEF OverBy
        <5>2. x[t] = next[t] \/ clock[t] < x[t].dts
          OBVIOUS
        <5>3. x[t].dts \in Int
          OBVIOUS
        <5> QED BY <1>1, <3>1, <5>1, <5>2, <5>3
      <4> QED BY <4>2 DEF OverBy
    <3> QED BY <3>2, <3>3
  <2>3. OrderInv'
    <3>1. format = "fmp4" =>
             /\ Sorted(disk, Rec!Times) /\ \A s \in Rec!Times : disk[s].creates > 0 => disk[s].stream <= instance.id
             /\ instance.at = "reading" => \A s \in Rec!Times : disk[s].creates > 0 => disk[s].stream < instance.id
      BY <1>3 DEF RecordingInv, OrderInv
    <3>2. format = "fmp4" => Sorted(disk, Rec!Times)' /\ EndsBy(disk, Rec!Times, clock)'
                             /\ (instance'.at = "reading" => OverBy(disk, clock, next)')
      BY <2>2, <3>1 DEF Sorted, EndsBy, OverBy, Finished, ComesBefore, Continues
    <3> QED BY <1>3, <3>1, <3>2 DEF OrderInv
  <2> QED BY <2>1, <2>3
<1> QED BY <1>2, <1>3

(* A sample is kept, or one that was too early for the segment discarded;  *)
(* or there is nothing to keep.                                            *)
LEMMA SamplesKept ==
    ASSUME RecordingInv, DoubledTracks = {}, NEW t \in Tracks, NEW step \in 1 .. MaxStep, Rec!Unit(t, step),
           Rec!InStep(t, step), UNCHANGED <<segment, disk, number, silent, dropped>>, hasVideo' \in BOOLEAN,
           instance' = instance \/ instance' = [instance EXCEPT !.at = "failed"],
           \/ next' = next /\ (next[t] = Rec!Nothing \/ instance'.at = "failed")
           \/ format = "fmp4" /\ \E sample \in [dts : Int, sync : BOOLEAN] :
                  next' = [next EXCEPT ![t] = sample] /\ sample.dts = clock'[t]
    PROVE  StepInv' /\ HeldInv' /\ OrderInv'
<1>1. /\ clock \in [Tracks -> 0 .. MaxTime] /\ clock' \in [Tracks -> 0 .. MaxTime] /\ MaxTime \in Nat /\ Tolerance \in Nat
      /\ clock'[t] = clock[t] + step /\ step \in Nat /\ step > 0
      /\ \A u \in Tracks : clock[u] <= clock'[u] /\ clock[u] \in Nat /\ clock'[u] \in Nat
      /\ \A u \in Tracks : u # t => clock'[u] = clock[u]
      /\ instance.at = "reading" /\ format' = format
      /\ next \in [Tracks -> [dts : Int, sync : BOOLEAN]] /\ next' \in [Tracks -> [dts : Int, sync : BOOLEAN]]
      /\ instance \in [id : Nat, at : {"reading", "skipped", "failed", "closing", "done"}]
  <2>1. clock \in [Tracks -> 0 .. MaxTime] /\ next \in [Tracks -> [dts : Int, sync : BOOLEAN]]
        /\ instance \in [id : Nat, at : {"reading", "skipped", "failed", "closing", "done"}]
    BY DEF RecordingInv, RecorderInv, RecorderTypes
  <2>2. /\ clock' \in [Tracks -> 0 .. MaxTime] /\ clock'[t] = clock[t] + step /\ step \in Nat /\ step > 0
        /\ \A u \in Tracks : clock[u] <= clock'[u]
        /\ instance.at = "reading" /\ format' = format
    BY ClockStep DEF RecordingInv
  <2>3. \A u \in Tracks : u # t => clock'[u] = clock[u]
    BY <2>1 DEF Rec!Unit
  <2>4. MaxTime \in Nat /\ Tolerance \in Nat
    BY MediaAssumption DEF Rec!TimesAssumption
  <2>5. next' \in [Tracks -> [dts : Int, sync : BOOLEAN]]
    BY <2>1
  <2> QED BY <2>1, <2>2, <2>3, <2>4, <2>5
<1>2. instance'.id = instance.id /\ instance'.at \in {"reading", "failed"}
  BY <1>1
<1>3. \A u \in Tracks : next'[u] = next[u] \/ (u = t /\ next'[u].dts = clock'[u] /\ next'[u] # Rec!Nothing)
  BY <1>1 DEF Rec!Nothing
<1>4. HeldInv' /\ OrderInv'
  <2>1. \A u \in Tracks : next'[u] = next[u] \/ clock[u] < next'[u].dts
    BY <1>1, <1>3
  <2> QED BY <1>1, <1>2, <2>1, LeftAsItIs
<1>5. \A u, v \in Tracks : clock'[u] - clock'[v] <= Tolerance
  <2>1. ASSUME NEW u \in Tracks, NEW v \in Tracks PROVE clock'[u] - clock'[v] <= Tolerance
    <3>1. clock[u] - clock[v] <= Tolerance /\ clock[t] + step - clock[v] <= Tolerance
      BY DEF RecordingInv, StepInv, Rec!InStep
    <3>2. clock[v] <= clock'[v] /\ (u = t \/ clock'[u] = clock[u])
      BY <1>1
    <3> QED BY <1>1, <3>1, <3>2
  <2> QED BY <2>1
<1>6. format = "mpegts" => \A u \in Tracks : next'[u] = Rec!Nothing
  BY DEF RecordingInv, StepInv
<1>7. ASSUME instance'.at = "reading", NEW u \in Tracks PROVE next'[u] = Rec!Nothing \/ next'[u].dts = clock'[u]
  <2>1. next[u] = Rec!Nothing \/ next[u].dts = clock[u]
    BY <1>1 DEF RecordingInv, StepInv
  <2> QED BY <1>1, <1>3, <1>7, <2>1
<1>8. ASSUME segment # Rec!NoSegment, NEW u \in Tracks \ silent, instance'.at = "reading"
      PROVE  next'[u] # Rec!Nothing /\ segment.start <= next'[u].dts
  <2>1. next[u] # Rec!Nothing /\ segment.start <= next[u].dts /\ next[u].dts = clock[u] /\ segment.start \in Int
    BY <1>1, <1>8 DEF RecordingInv, RecorderInv, RecorderTypes, StepInv, SegmentTypes
  <2> QED BY <1>1, <1>3, <2>1
<1>9. StepInv'
  <2>1. dropped = {} /\ silent \subseteq Tracks /\ instance.id \in 1 .. MaxInstances /\ (segment = Rec!NoSegment => silent = Tracks)
    BY DEF RecordingInv, StepInv
  <2> QED BY <1>1, <1>2, <1>5, <1>6, <1>7, <1>8, <2>1 DEF StepInv
<1> QED BY <1>4, <1>9

(* The next segment begins at the oldest of the samples that are kept,     *)
(* which are all in step.                                                  *)
LEMMA OldestStarts ==
    ASSUME NEW after \in [Tracks -> [dts : Int, sync : BOOLEAN]], NEW t \in Tracks, after[t] # Rec!Nothing,
           \A u \in Tracks : after[u] = Rec!Nothing \/ after[u].dts \in 0 .. MaxTime,
           \A u, v \in Tracks : after[u] = Rec!Nothing \/ after[v] = Rec!Nothing \/ after[u].dts - after[v].dts <= Tolerance
    PROVE  /\ \E u \in Tracks : after[u] # Rec!Nothing /\ Rec!NextSegmentStartingPos(after) = after[u].dts
           /\ \A u \in Tracks : after[u] # Rec!Nothing => Rec!NextSegmentStartingPos(after) <= after[u].dts
<1> DEFINE W == Rec!Waiting(after)
           All == {after[u].dts : u \in W}
<1>1. t \in W /\ W \subseteq Tracks /\ \A u \in W : after[u].dts \in 0 .. MaxTime /\ after[u] # Rec!Nothing
  BY DEF Rec!Waiting
<1>2. \A u \in Tracks : after[u] # Rec!Nothing => u \in W
  BY DEF Rec!Waiting
<1>3. MaxTime \in Nat /\ All \in SUBSET (0 .. MaxTime) /\ All # {} /\ All \in SUBSET Nat
  BY <1>1, MediaAssumption DEF Rec!TimesAssumption
<1> DEFINE N == Rec!Newest(after)
<1>4. N \in All
  <2>1. PICK m \in All : \A x \in All : x <= m
    <3> HIDE DEF All
    <3> QED BY <1>3, GreatestIsThere
  <2>2. \E n \in All : \A u \in W : after[u].dts <= n
    BY <2>1
  <2> QED BY <2>2 DEF Rec!Newest
<1>5. PICK v \in W : N = after[v].dts
  BY <1>4
<1> HIDE DEF N
<1>6. Rec!NotBehind(after) = W
  <2>1. \A u \in W : N - after[u].dts <= Tolerance
    BY <1>1, <1>5
  <2>2. Rec!NotBehind(after) = {u \in W : N - after[u].dts <= Tolerance}
    BY Zenon DEF Rec!NotBehind, N
  <2> HIDE DEF W
  <2> QED BY <2>1, <2>2
<1>7. PICK m \in All : \A x \in All : m <= x
  <2> HIDE DEF All
  <2> QED BY <1>3, SmallestIsThere
<1>8. \E n \in All : \A u \in W : n <= after[u].dts
  BY <1>7
<1> DEFINE pos == Rec!NextSegmentStartingPos(after)
<1>9. pos \in All /\ \A u \in W : pos <= after[u].dts
  BY <1>6, <1>8 DEF Rec!NextSegmentStartingPos
<1> HIDE DEF pos, W
<1>10. \A u \in Tracks : after[u] # Rec!Nothing => pos <= after[u].dts
  BY <1>2, <1>9
<1>11. \E u \in Tracks : after[u] # Rec!Nothing /\ pos = after[u].dts
  BY <1>1, <1>9
<1> QED BY <1>10, <1>11 DEF pos

(* What a sample that is written leaves.                                   *)
Wrote(t, sample, seg, w) ==
    LET after == [next EXCEPT ![t] = sample]
        pos == Rec!NextSegmentStartingPos(after)
    IN  /\ next' = after /\ UNCHANGED <<recorder, closing, dropped>> /\ hasVideo' \in BOOLEAN
        /\ \/ ~w.ok /\ Rec!Fails(w) /\ number' = seg.number + 1 /\ UNCHANGED silent
           \/ /\ w.ok /\ segment' = w.seg /\ disk' = w.disk /\ number' = seg.number + 1
              /\ UNCHANGED <<instance, silent>>
           \/ /\ w.ok /\ sample.dts - w.seg.start >= SegmentDuration
              /\ \E c \in Rec!CloseSegment(w.seg, w.disk) :
                     \/ ~c.ok /\ Rec!Fails(c) /\ number' = w.seg.number + 1 /\ UNCHANGED silent
                     \/ /\ c.ok /\ disk' = c.disk /\ UNCHANGED instance
                        /\ segment' = [start |-> pos, end |-> pos, number |-> w.seg.number + 1, file |-> "none",
                                       part |-> Rec!NoPart, last |-> -1, lost |-> "nothing"]
                        /\ number' = w.seg.number + 2 /\ silent' = Tracks \ Rec!Waiting(after)

LEMMA WriteSampleIs ==
    ASSUME RecordingInv, DoubledTracks = {}, format = "fmp4", NEW t \in Tracks, NEW step \in 1 .. MaxStep, Rec!Unit(t, step),
           NEW sample \in [dts : Int, sync : BOOLEAN], sample.dts = clock'[t], clock[t] < sample.dts,
           Rec!WriteSample(t, sample)
    PROVE  \E seg : /\ seg = IF segment = Rec!NoSegment
                             THEN [start |-> next[t].dts, end |-> next[t].dts, number |-> 0, file |-> "none",
                                   part |-> Rec!NoPart, last |-> -1, lost |-> "nothing"]
                             ELSE segment
                    /\ \E w \in Rec!SegmentWrite(seg, disk, next[t].dts, sample.dts) : Wrote(t, sample, seg, w)
<1> DEFINE dts == next[t].dts
           after == [next EXCEPT ![t] = sample]
           first == segment = Rec!NoSegment
           seg == IF first THEN Rec!NewSegment(dts) ELSE segment
<1>1. next[t] # Rec!Nothing
  BY DEF Rec!WriteSample
<1>2. Rec!Following(t, sample) = sample
  BY <1>1, FollowingIs DEF RecordingInv
<1>3. number = (IF first THEN 0 ELSE seg.number + 1)
  BY DEF RecordingInv, HeldInv
<1>4. seg = IF first THEN [start |-> dts, end |-> dts, number |-> 0, file |-> "none", part |-> Rec!NoPart, last |-> -1, lost |-> "nothing"] ELSE segment
  <2>1. Rec!NewSegment(dts) = [start |-> dts, end |-> dts, number |-> number, file |-> "none", part |-> Rec!NoPart, last |-> -1, lost |-> "nothing"]
    BY NewSegmentIs DEF Rec!NewSegment
  <2> HIDE DEF dts
  <2> QED BY <1>3, <2>1
<1>5. (IF first THEN number + 1 ELSE number) = seg.number + 1
  BY <1>3, <1>4
<1>6. hasVideo' \in BOOLEAN
  BY DEF Rec!WriteSample
<1> DEFINE Body(following, kept, new, w) ==
               /\ next' = kept
               /\ UNCHANGED <<recorder, closing, dropped>>
               /\ IF ~w.ok THEN Rec!Fails(w) /\ number' = (IF new THEN number + 1 ELSE number) /\ UNCHANGED silent
                  ELSE IF ~Rec!Switches(t, following, hasVideo', w.seg.start)
                  THEN /\ segment' = w.seg /\ disk' = w.disk
                       /\ number' = (IF new THEN number + 1 ELSE number)
                       /\ UNCHANGED <<instance, silent>>
                  ELSE \E c \in Rec!CloseSegment(w.seg, w.disk) :
                           IF c.ok
                           THEN /\ segment' = [Rec!NoSegment EXCEPT !.start = Rec!NextSegmentStartingPos(kept),
                                                   !.end = Rec!NextSegmentStartingPos(kept), !.number = w.seg.number + 1]
                                /\ number' = w.seg.number + 2
                                /\ silent' = Tracks \ Rec!Waiting(kept)
                                /\ disk' = c.disk
                                /\ UNCHANGED instance
                           ELSE Rec!Fails(c) /\ number' = w.seg.number + 1 /\ UNCHANGED silent
<1>7. PICK w \in Rec!SegmentWrite(seg, disk, dts, sample.dts) : Body(sample, after, first, w)
  <2>1. \E following \in {Rec!Following(t, sample)} : \E kept \in {[next EXCEPT ![t] = following]} :
        \E new \in {segment = Rec!NoSegment} :
        \E w \in Rec!SegmentWrite(IF new THEN Rec!NewSegment(next[t].dts) ELSE segment, disk, next[t].dts, following.dts) :
            Body(following, kept, new, w)
    BY Zenon DEF Rec!WriteSample
  <2> HIDE DEF Body
  <2>2. \E w \in Rec!SegmentWrite(seg, disk, dts, sample.dts) : Body(sample, after, first, w)
    BY <1>2, <2>1
  <2> QED BY <2>2
<1> DEFINE n == IF first THEN number + 1 ELSE number
           pos == Rec!NextSegmentStartingPos(after)
           start == [Rec!NoSegment EXCEPT !.start = pos, !.end = pos, !.number = w.seg.number + 1]
<1>8. start = [start |-> pos, end |-> pos, number |-> w.seg.number + 1, file |-> "none", part |-> Rec!NoPart, last |-> -1, lost |-> "nothing"]
  BY NewSegmentIs
<1>9. Rec!Switches(t, sample, hasVideo', w.seg.start) => sample.dts - w.seg.start >= SegmentDuration
  BY DEF Rec!Switches
<1>10. n = seg.number + 1
  BY <1>5
<1>11. Wrote(t, sample, seg, w)
  <2> HIDE DEF seg, dts, first, n, start
  <2>1. /\ next' = after /\ UNCHANGED <<recorder, closing, dropped>>
        /\ IF ~w.ok THEN Rec!Fails(w) /\ number' = n /\ UNCHANGED silent
           ELSE IF ~Rec!Switches(t, sample, hasVideo', w.seg.start)
           THEN /\ segment' = w.seg /\ disk' = w.disk /\ number' = n /\ UNCHANGED <<instance, silent>>
           ELSE \E c \in Rec!CloseSegment(w.seg, w.disk) :
                    IF c.ok
                    THEN /\ segment' = start /\ number' = w.seg.number + 2 /\ silent' = Tracks \ Rec!Waiting(after)
                         /\ disk' = c.disk /\ UNCHANGED instance
                    ELSE Rec!Fails(c) /\ number' = w.seg.number + 1 /\ UNCHANGED silent
    BY Zenon, <1>7 DEF n, start
  <2> HIDE DEF Body, pos, after
  <2> QED BY Zenon, <1>6, <1>8, <1>9, <1>10, <2>1 DEF Wrote, pos, after
<1> HIDE DEF Body
<1> QED BY <1>4, <1>7, <1>11

(* The segment that a sample is written to: the current one, or the first. *)
LEMMA WrittenTo ==
    ASSUME RecordingInv, DoubledTracks = {}, format = "fmp4", NEW t \in Tracks, NEW step \in 1 .. MaxStep, Rec!Unit(t, step),
           next[t] # Rec!Nothing, segment # Rec!NoSegment => segment.start <= next[t].dts,
           NEW seg, seg = IF segment = Rec!NoSegment
                          THEN [start |-> next[t].dts, end |-> next[t].dts, number |-> 0, file |-> "none",
                                part |-> Rec!NoPart, last |-> -1, lost |-> "nothing"]
                          ELSE segment
    PROVE  /\ Held(seg, disk, 0) /\ seg.file # "closed" /\ OthersFine(seg, disk) /\ Current(seg, disk, clock')
           /\ GoesOn(seg, disk, clock', instance.id) /\ (\E u \in Tracks : seg.end <= clock'[u])
           /\ seg.start <= next[t].dts /\ next[t].dts \in 0 .. clock[t]
<1> DEFINE dts == next[t].dts  k == clock'
<1>1. /\ clock \in [Tracks -> 0 .. MaxTime] /\ k \in [Tracks -> 0 .. MaxTime] /\ MaxTime \in Nat
      /\ \A u \in Tracks : clock[u] <= k[u] /\ clock[u] \in Nat /\ k[u] \in Nat
      /\ disk \in Disks /\ instance.id \in Nat /\ instance.at = "reading"
  BY ClockStep, TimesAre DEF RecordingInv, RecorderInv, RecorderTypes
<1>2. dts \in 0 .. clock[t] /\ dts \in 0 .. MaxTime /\ dts \in Rec!Times
  BY <1>1, TimesAre DEF RecordingInv, RecorderInv, SampleInv
<1>3. Rec!NoPart \in [start : -1 .. MaxTime, end : -1 .. MaxTime] /\ Rec!NoPart \in [start : Int, end : Int]
  BY <1>1 DEF Rec!NoPart
<1>4. CASE segment = Rec!NoSegment
  <2>1. seg = [start |-> dts, end |-> dts, number |-> 0, file |-> "none", part |-> Rec!NoPart, last |-> -1, lost |-> "nothing"]
    BY <1>4
  <2>2. seg.start = dts /\ seg.end = dts /\ seg.number = 0 /\ seg.file = "none" /\ seg \in SegmentTypes
    BY <1>2, <1>3, <2>1 DEF SegmentTypes, Losses
  <2>3. /\ \A s \in Rec!Times : IsCompleted(disk[s]) /\ (disk[s].creates > 0 => s < dts)
        /\ \A s \in Rec!Times : disk[s] \in FileTypes /\ s \in Nat
    BY <1>1, <1>4, TimesAre DEF RecordingInv, RecorderInv, DiskInv, Disks
  <2>4. disk[dts].creates = 0 /\ disk[dts].completes = 0
    <3>1. ~(disk[dts].creates > 0) /\ disk[dts] \in FileTypes /\ disk[dts].completes <= disk[dts].creates
      BY <1>2, <2>3 DEF IsCompleted
    <3> QED BY <3>1 DEF FileTypes
  <2>5. \A s \in Rec!Times : FileBounds(disk[s]) /\ disk[s].creates <= 3
    <3>1. \A s \in Rec!Times : s # -1
      BY <2>3
    <3> QED BY <1>4, <3>1 DEF RecordingInv, HeldInv, OthersFine, Others, Rec!NoSegment
  <2>6. Held(seg, disk, 0)
    <3>1. 0 \in 0 .. dts
      BY <1>1, <1>2
    <3> HIDE DEF dts
    <3> QED BY <1>1, <1>2, <1>3, <2>1, <2>4, <2>5, <3>1, NewHeld
  <2>7. OthersFine(seg, disk)
    BY <2>5 DEF OthersFine, Others
  <2>8. Current(seg, disk, k)
    <3> HIDE DEF k
    <3>1. \E u \in Tracks : seg.start <= k[u]
      BY <1>1, <1>2, <2>2
    <3> QED BY <1>1, <1>2, <2>2, <2>3, <3>1, FirstIsCurrent
  <2>9. /\ Sorted(disk, Rec!Times) /\ EndsBy(disk, Rec!Times, clock)
        /\ \A s \in Rec!Times : disk[s].creates > 0 => disk[s].stream < instance.id /\ Finished(disk, s) < dts
    BY <1>1, <1>4 DEF RecordingInv, OrderInv, OverBy
  <2>10. EndsBy(disk, Rec!Times, k)
    <3> DEFINE S == Rec!Times
    <3>1. S \in SUBSET Rec!Times /\ EndsBy(disk, S, clock)
      BY <2>9
    <3> HIDE DEF S, k
    <3> QED BY <1>1, <3>1, EndsByLater DEF S
  <2>11. GoesOn(seg, disk, k, instance.id)
    <3> HIDE DEF k, dts
    <3> QED BY <1>1, <1>2, <2>2, <2>4, <2>9, <2>10, FirstGoesOn
  <2>12. (\E u \in Tracks : seg.end <= k[u]) /\ seg.start <= dts
    BY <1>1, <1>2, <2>2
  <2> QED BY <1>2, <2>2, <2>6, <2>7, <2>8, <2>11, <2>12
<1>5. CASE segment # Rec!NoSegment
  <2>1. seg = segment
    BY <1>5
  <2>2. Held(seg, disk, 0) /\ seg.file # "closed" /\ OthersFine(seg, disk)
    BY <1>1, <1>5, <2>1 DEF RecordingInv, HeldInv
  <2>3. Current(seg, disk, k)
    <3>1. Current(seg, disk, clock)
      BY <1>5, <2>1 DEF RecordingInv, RecorderInv, DiskInv
    <3> HIDE DEF k
    <3> QED BY <1>1, <3>1, CurrentLater
  <2>4. GoesOn(seg, disk, k, instance.id)
    <3> DEFINE S == Others(seg)
    <3>1. Sorted(disk, S) /\ EndsBy(disk, S, clock) /\ Follows(seg, disk, instance.id) /\ S \in SUBSET Rec!Times
      BY <1>5, <2>1 DEF RecordingInv, OrderInv, GoesOn, Others
    <3> HIDE DEF S, k
    <3>2. EndsBy(disk, S, k)
      BY <1>1, <3>1, EndsByLater
    <3> QED BY <3>1, <3>2 DEF GoesOn, S
  <2>5. \E u \in Tracks : seg.end <= k[u]
    <3>1. PICK u \in Tracks : seg.end <= clock[u]
      BY <1>5, <2>1 DEF RecordingInv, HeldInv
    <3>2. seg.end \in Int
      BY <2>2 DEF Held, Kept, SegmentTypes
    <3> QED BY <1>1, <3>1, <3>2
  <2> QED BY <1>2, <1>5, <2>1, <2>2, <2>3, <2>4, <2>5
<1> QED BY <1>4, <1>5

(* A segment that is closed, and goes on.                                  *)
LEMMA SegmentCloses ==
    ASSUME DoubledTracks = {}, instance.id \in 1 .. MaxInstances, NEW seg, NEW d, NEW k, NEW n \in Nat,
           Held(seg, d, n), OthersFine(seg, d), Current(seg, d, k), NEW c \in Rec!CloseSegment(seg, d)
    PROVE  /\ Held(c.seg, c.disk, n + 1) /\ (c.ok => Held(c.seg, c.disk, n)) /\ c.ok \in BOOLEAN
           /\ SameSegment(seg, c.seg) /\ OthersFine(c.seg, c.disk) /\ Current(c.seg, c.disk, k) /\ c.seg.file # "open"
           /\ \A id : GoesOn(seg, d, k, id) => GoesOn(c.seg, c.disk, k, id)
           /\ c.ok /\ n = 0 /\ format = "fmp4" /\ seg.part # Rec!NoPart =>
                  /\ c.disk[seg.start].creates > 0 /\ Whole(c.disk[seg.start])
                  /\ c.disk[seg.start].duration = seg.end - seg.start
                  /\ c.disk[seg.start].stream = instance.id /\ c.disk[seg.start].number = seg.number
<1>1. /\ Held(c.seg, c.disk, n + 1) /\ (c.ok => Held(c.seg, c.disk, n)) /\ SameSegment(seg, c.seg)
      /\ c.ok /\ n = 0 /\ format = "fmp4" /\ seg.part # Rec!NoPart =>
             /\ c.disk[seg.start].creates > 0 /\ Whole(c.disk[seg.start])
             /\ c.disk[seg.start].duration = seg.end - seg.start
             /\ c.disk[seg.start].stream = instance.id /\ c.disk[seg.start].number = seg.number
  <2>1. FileInv(seg, d)
    BY DEF Current
  <2> QED BY <2>1, CloseSegmentHeld
<1>2. Writes(seg, d, c) /\ c.seg.file # "open"
  BY CloseSegmentWrites DEF Current
<1>3. Current(c.seg, c.disk, k) /\ c.ok \in BOOLEAN
  BY <1>2, CurrentWrites
<1>4. c.seg.number = seg.number
  BY <1>1 DEF SameSegment
<1>5. OthersFine(c.seg, c.disk) /\ \A id : GoesOn(seg, d, k, id) => GoesOn(c.seg, c.disk, k, id)
  BY <1>2, <1>4, OthersWrites
<1> QED BY <1>1, <1>2, <1>3, <1>5

(* The disk when the next segment begins: nothing is there at its start.   *)
LEMMA NothingThere ==
    ASSUME DoubledTracks = {}, NEW seg, NEW d, NEW k, Held(seg, d, 0), OthersFine(seg, d), Current(seg, d, k),
           seg.file # "open", NEW pos \in Rec!Times, seg.start < pos
    PROVE  /\ FileBounds(d[pos]) /\ d[pos].creates = 0 /\ d[pos].completes = 0
           /\ \A s \in Rec!Times : d[s].creates > 0 => s <= seg.start
           /\ \A new : new.start = pos => OthersFine(new, d)
<1>1. /\ \A s \in Rec!Times : d[s] \in FileTypes /\ s \in Nat
      /\ seg.start \in Rec!Times
  BY TimesAre DEF Current, Disks
<1>2. \A s \in Rec!Times : FileBounds(d[s]) /\ d[s].creates <= 3
  <2>1. FileBounds(d[seg.start]) /\ d[seg.start].creates <= 1
    BY DEF Held, Kept, FileKept
  <2>2. d[seg.start].creates \in Nat
    BY <1>1 DEF FileTypes
  <2> QED BY <1>1, <2>1, <2>2 DEF OthersFine, Others
<1>3. \A s \in Rec!Times : d[s].completes <= d[s].creates
  <2>1. \A s \in Rec!Times : s # seg.start => IsCompleted(d[s])
    BY DEF Current
  <2>2. IsCompleted(d[seg.start]) \/ IsToCome(d[seg.start])
    BY DEF Current, FileInv, SegmentTypes
  <2>3. ASSUME NEW s \in Rec!Times PROVE d[s].completes <= d[s].creates
    <3>1. IsCompleted(d[s]) \/ IsToCome(d[s])
      BY <2>1, <2>2
    <3> QED BY <1>1, <3>1 DEF IsCompleted, IsToCome, FileTypes
  <2> QED BY <2>3
<1>4. \A s \in Rec!Times : d[s].creates > 0 => s <= seg.start
  BY DEF Current
<1>5. d[pos].creates = 0 /\ d[pos].completes = 0
  <2>1. d[pos] \in FileTypes /\ ~(d[pos].creates > 0) /\ d[pos].completes <= d[pos].creates
    BY <1>1, <1>3, <1>4
  <2> QED BY <2>1 DEF FileTypes
<1>7. \A new : new.start = pos => OthersFine(new, d)
  BY <1>2 DEF OthersFine, Others
<1> QED BY <1>2, <1>4, <1>5, <1>7

LEMMA WrittenStep ==
    ASSUME RecordingInv, DoubledTracks = {}, format = "fmp4", NEW t \in Tracks, NEW step \in 1 .. MaxStep, Rec!Unit(t, step),
           Rec!InStep(t, step), NEW sample \in [dts : Int, sync : BOOLEAN], sample.dts = clock'[t], clock[t] < sample.dts,
           Rec!WriteSample(t, sample)
    PROVE  StepInv' /\ HeldInv' /\ OrderInv'
<1> DEFINE dts == next[t].dts  k == clock'
           after == [next EXCEPT ![t] = sample]
           pos == Rec!NextSegmentStartingPos(after)
<1>1. /\ clock \in [Tracks -> 0 .. MaxTime] /\ k \in [Tracks -> 0 .. MaxTime] /\ MaxTime \in Nat /\ Tolerance \in Nat
      /\ k[t] = clock[t] + step /\ step \in Nat /\ step > 0
      /\ \A u \in Tracks : clock[u] <= k[u] /\ clock[u] \in Nat /\ k[u] \in Nat
      /\ \A u \in Tracks : u # t => k[u] = clock[u]
      /\ instance.at = "reading" /\ format' = format
      /\ next \in [Tracks -> [dts : Int, sync : BOOLEAN]]
      /\ instance \in [id : Nat, at : {"reading", "skipped", "failed", "closing", "done"}] /\ segment \in SegmentTypes
  <2>1. clock \in [Tracks -> 0 .. MaxTime] /\ next \in [Tracks -> [dts : Int, sync : BOOLEAN]] /\ segment \in SegmentTypes
        /\ instance \in [id : Nat, at : {"reading", "skipped", "failed", "closing", "done"}]
    BY DEF RecordingInv, RecorderInv, RecorderTypes
  <2>2. /\ k \in [Tracks -> 0 .. MaxTime] /\ k[t] = clock[t] + step /\ step \in Nat /\ step > 0
        /\ \A u \in Tracks : clock[u] <= k[u]
        /\ instance.at = "reading" /\ format' = format
    BY ClockStep DEF RecordingInv
  <2>3. \A u \in Tracks : u # t => k[u] = clock[u]
    BY <2>1 DEF Rec!Unit
  <2>4. MaxTime \in Nat /\ Tolerance \in Nat
    BY MediaAssumption DEF Rec!TimesAssumption
  <2> QED BY <2>1, <2>2, <2>3, <2>4
<1>2. next[t] # Rec!Nothing /\ (segment # Rec!NoSegment => segment.start <= dts)
  <2>1. next[t] # Rec!Nothing /\ (segment # Rec!NoSegment => dts >= segment.start)
    BY DEF Rec!WriteSample
  <2>2. dts \in Int /\ segment.start \in Int
    BY <1>1 DEF SegmentTypes
  <2> QED BY <2>1, <2>2
<1>3. PICK seg : /\ seg = IF segment = Rec!NoSegment
                          THEN [start |-> dts, end |-> dts, number |-> 0, file |-> "none", part |-> Rec!NoPart, last |-> -1, lost |-> "nothing"]
                          ELSE segment
                 /\ \E w \in Rec!SegmentWrite(seg, disk, dts, sample.dts) : Wrote(t, sample, seg, w)
  BY WriteSampleIs
<1>4. PICK w \in Rec!SegmentWrite(seg, disk, dts, sample.dts) : Wrote(t, sample, seg, w)
  BY <1>3
<1>5. /\ Held(seg, disk, 0) /\ seg.file # "closed" /\ OthersFine(seg, disk) /\ Current(seg, disk, k)
      /\ GoesOn(seg, disk, k, instance.id) /\ (\E u \in Tracks : seg.end <= k[u])
      /\ seg.start <= dts /\ dts \in 0 .. clock[t]
  BY <1>2, <1>3, WrittenTo
<1>6. dts \in 0 .. MaxTime /\ sample.dts \in 0 .. MaxTime /\ dts <= sample.dts /\ dts \in Int /\ sample.dts \in Int
      /\ instance.id \in 1 .. MaxInstances /\ instance.id \in Nat
  BY <1>1, <1>5 DEF RecordingInv, StepInv
<1>7. /\ Held(w.seg, w.disk, 1) /\ (w.ok => Held(w.seg, w.disk, 0) /\ w.seg.part # Rec!NoPart)
      /\ w.seg.start = seg.start /\ w.seg.number = seg.number /\ w.seg.end = Rec!Later(sample.dts, seg.end)
      /\ w.seg.file # "closed"
  <2> HIDE DEF dts, k
  <2>1. /\ Held(w.seg, w.disk, 1) /\ (w.ok => Held(w.seg, w.disk, 0) /\ w.seg.part # Rec!NoPart)
        /\ w.seg.start = seg.start /\ w.seg.number = seg.number /\ w.seg.end = Rec!Later(sample.dts, seg.end)
        /\ w.seg.file # "closed"
    BY <1>4, <1>5, <1>6, SegmentWriteHeld
  <2> QED BY <2>1
<1>8. Writes(seg, disk, w)
  <2>1. seg \in SegmentTypes /\ seg.start \in Rec!Times /\ FileInv(seg, disk) /\ disk \in Disks
    BY <1>5 DEF Current
  <2> HIDE DEF dts
  <2> QED BY <1>4, <1>6, <2>1, SegmentWriteWrites
<1>9. Current(w.seg, w.disk, k) /\ w.ok \in BOOLEAN /\ OthersFine(w.seg, w.disk) /\ GoesOn(w.seg, w.disk, k, instance.id)
  <2>1. Current(w.seg, w.disk, k) /\ w.ok \in BOOLEAN
    <3> HIDE DEF k
    <3> QED BY <1>5, <1>8, CurrentWrites
  <2>2. OthersFine(w.seg, w.disk) /\ GoesOn(w.seg, w.disk, k, instance.id)
    <3> HIDE DEF k
    <3> QED BY <1>5, <1>7, <1>8, OthersWrites
  <2> QED BY <2>1, <2>2
<1>10. w.seg.start \in Nat /\ w.seg.start \in Rec!Times /\ w.seg.end \in Int /\ w.seg.number \in 0 .. w.seg.start
       /\ w.seg.start <= w.seg.end /\ sample.dts <= w.seg.end /\ \E u \in Tracks : w.seg.end <= k[u]
  <2>1. w.seg.start \in Nat /\ w.seg.start \in Rec!Times /\ w.seg.end \in Int /\ w.seg.number \in 0 .. w.seg.start
        /\ w.seg.start <= w.seg.end
    BY <1>1, <1>7, TimesAre DEF Held, Kept, SegmentBounds
  <2>2. seg.end \in Int
    BY <1>5 DEF Held, Kept, SegmentTypes
  <2>3. w.seg.end = sample.dts \/ w.seg.end = seg.end
    BY <1>7 DEF Rec!Later
  <2>4. sample.dts <= w.seg.end
    BY <1>6, <1>7, <2>2 DEF Rec!Later
  <2>5. sample.dts <= k[t]
    BY <1>1
  <2> QED BY <1>5, <2>1, <2>3, <2>4, <2>5
<1>11. w.seg # Rec!NoSegment /\ \A x : x.start \in Nat => x # Rec!NoSegment
  <2>1. \A x : x.start \in Nat => x # Rec!NoSegment
    BY DEF Rec!NoSegment
  <2> QED BY <1>10, <2>1
<1>12. /\ next' = after /\ hasVideo' \in BOOLEAN /\ dropped' = dropped
       /\ after \in [Tracks -> [dts : Int, sync : BOOLEAN]] /\ after[t] = sample /\ after[t] # Rec!Nothing
       /\ \A u \in Tracks : u # t => after[u] = next[u]
  <2>1. next' = after /\ hasVideo' \in BOOLEAN /\ dropped' = dropped
    BY <1>4 DEF Wrote
  <2>2. sample # Rec!Nothing
    BY <1>6 DEF Rec!Nothing
  <2> QED BY <1>1, <2>1, <2>2
<1> HIDE DEF after, pos, dts, k
<1>13. \A u \in Tracks : after[u] = Rec!Nothing \/ after[u].dts = k[u]
  <2>1. \A u \in Tracks : next[u] = Rec!Nothing \/ next[u].dts = clock[u]
    BY <1>1 DEF RecordingInv, StepInv
  <2> QED BY <1>1, <1>12, <2>1 DEF k
<1>14. \A u, v \in Tracks : k[u] - k[v] <= Tolerance
  <2>1. ASSUME NEW u \in Tracks, NEW v \in Tracks PROVE k[u] - k[v] <= Tolerance
    <3>1. clock[u] - clock[v] <= Tolerance /\ clock[t] + step - clock[v] <= Tolerance
      BY DEF RecordingInv, StepInv, Rec!InStep
    <3>2. clock[v] <= k[v] /\ (u = t \/ k[u] = clock[u])
      BY <1>1
    <3> QED BY <1>1, <3>1, <3>2
  <2> QED BY <2>1
(* What is left of the invariant, for what the step does to the segment.   *)
<1>15. ASSUME instance' = instance \/ instance' = [instance EXCEPT !.at = "failed"],
              silent' \subseteq Tracks, segment' # Rec!NoSegment,
              instance'.at = "reading" => \A u \in Tracks \ silent' : after[u] # Rec!Nothing /\ segment'.start <= after[u].dts
       PROVE  StepInv'
  <2>1. instance'.id \in 1 .. MaxInstances /\ dropped' = {}
    BY <1>1, <1>6, <1>12, <1>15 DEF RecordingInv, StepInv
  <2> QED BY <1>1, <1>12, <1>13, <1>14, <1>15, <2>1 DEF StepInv, k
<1>16. ASSUME instance' = instance, silent' = silent, segment' = w.seg PROVE StepInv'
  <2>1. ASSUME NEW u \in Tracks \ silent PROVE after[u] # Rec!Nothing /\ w.seg.start <= after[u].dts
    <3>1. CASE segment = Rec!NoSegment
      BY <3>1 DEF RecordingInv, StepInv
    <3>2. CASE segment # Rec!NoSegment
      <4>1. next[u] # Rec!Nothing /\ segment.start <= next[u].dts /\ w.seg.start = segment.start
        BY <1>1, <1>3, <1>7, <3>2 DEF RecordingInv, StepInv
      <4>2. u = t => w.seg.start <= after[u].dts
        BY <1>1, <1>5, <1>6, <1>7, <1>10, <1>12
      <4> QED BY <1>12, <4>1, <4>2
    <3> QED BY <3>1, <3>2
  <2> QED BY <1>11, <1>15, <1>16, <2>1 DEF RecordingInv, StepInv
<1>17. ASSUME NEW r, Rec!Fails(r), silent' = silent, number' = r.seg.number + 1, Held(r.seg, r.disk, 1),
              OthersFine(r.seg, r.disk), GoesOn(r.seg, r.disk, k, instance.id), \E u \in Tracks : r.seg.end <= k[u]
       PROVE  StepInv' /\ HeldInv' /\ OrderInv'
  <2>1. instance' = [instance EXCEPT !.at = "failed"] /\ segment' = r.seg /\ disk' = r.disk
    BY <1>17 DEF Rec!Fails
  <2>2. instance'.at = "failed" /\ instance'.id = instance.id
    BY <1>1, <2>1
  <2>3. r.seg # Rec!NoSegment
    <3>1. r.seg.start \in Nat
      BY <1>1, <1>17 DEF Held, Kept, SegmentBounds
    <3> QED BY <1>11, <3>1
  <2>4. StepInv'
    <3>1. silent \subseteq Tracks
      BY DEF RecordingInv, StepInv
    <3> QED BY <1>15, <1>17, <2>1, <2>2, <2>3, <3>1
  <2> DEFINE x == r.seg  e == r.disk
  <2>5. segment' = x /\ disk' = e
    BY <2>1
  <2>6. HeldInv' /\ OrderInv'
    <3>1. Held(x, e, 1) /\ OthersFine(x, e) /\ GoesOn(x, e, clock', instance.id) /\ number' = x.number + 1
          /\ (\E u \in Tracks : x.end <= clock'[u]) /\ x # Rec!NoSegment
      BY <1>17, <2>3 DEF k
    <3> HIDE DEF x, e
    <3> QED BY <1>1, <2>2, <2>5, <3>1, SegmentKept
  <2> QED BY <2>4, <2>6
<1>18. CASE ~w.ok /\ Rec!Fails(w) /\ number' = seg.number + 1 /\ UNCHANGED silent
  BY <1>7, <1>9, <1>10, <1>17, <1>18
<1>19. CASE w.ok /\ segment' = w.seg /\ disk' = w.disk /\ number' = seg.number + 1 /\ UNCHANGED <<instance, silent>>
  <2>1. StepInv'
    BY <1>16, <1>19
  <2> DEFINE x == w.seg  e == w.disk
  <2>2. Held(x, e, 1) /\ Held(x, e, 0) /\ x.file # "closed" /\ OthersFine(x, e) /\ GoesOn(x, e, clock', instance.id)
        /\ (\E u \in Tracks : x.end <= clock'[u]) /\ x # Rec!NoSegment
        /\ number' = x.number + 1 /\ segment' = x /\ disk' = e /\ instance'.id = instance.id
    BY <1>7, <1>9, <1>10, <1>11, <1>19 DEF k
  <2> HIDE DEF x, e
  <2>3. HeldInv' /\ OrderInv'
    BY <1>1, <2>2, SegmentKept
  <2> QED BY <2>1, <2>3
<1>20. CASE /\ w.ok /\ sample.dts - w.seg.start >= SegmentDuration
            /\ \E c \in Rec!CloseSegment(w.seg, w.disk) :
                   \/ ~c.ok /\ Rec!Fails(c) /\ number' = w.seg.number + 1 /\ UNCHANGED silent
                   \/ /\ c.ok /\ disk' = c.disk /\ UNCHANGED instance
                      /\ segment' = [start |-> pos, end |-> pos, number |-> w.seg.number + 1, file |-> "none",
                                     part |-> Rec!NoPart, last |-> -1, lost |-> "nothing"]
                      /\ number' = w.seg.number + 2 /\ silent' = Tracks \ Rec!Waiting(after)
  <2>1. PICK c \in Rec!CloseSegment(w.seg, w.disk) :
            \/ ~c.ok /\ Rec!Fails(c) /\ number' = w.seg.number + 1 /\ UNCHANGED silent
            \/ /\ c.ok /\ disk' = c.disk /\ UNCHANGED instance
               /\ segment' = [start |-> pos, end |-> pos, number |-> w.seg.number + 1, file |-> "none",
                              part |-> Rec!NoPart, last |-> -1, lost |-> "nothing"]
               /\ number' = w.seg.number + 2 /\ silent' = Tracks \ Rec!Waiting(after)
    BY <1>20
  <2>2. /\ Held(c.seg, c.disk, 1) /\ (c.ok => Held(c.seg, c.disk, 0)) /\ c.ok \in BOOLEAN
        /\ SameSegment(w.seg, c.seg) /\ OthersFine(c.seg, c.disk) /\ Current(c.seg, c.disk, k) /\ c.seg.file # "open"
        /\ GoesOn(c.seg, c.disk, k, instance.id)
        /\ c.ok => /\ c.disk[w.seg.start].creates > 0 /\ Whole(c.disk[w.seg.start])
                   /\ c.disk[w.seg.start].duration = w.seg.end - w.seg.start
                   /\ c.disk[w.seg.start].stream = instance.id /\ c.disk[w.seg.start].number = w.seg.number
    <3>1. Held(w.seg, w.disk, 0) /\ w.seg.part # Rec!NoPart
      BY <1>7, <1>20
    <3>2. /\ Held(c.seg, c.disk, 0 + 1) /\ (c.ok => Held(c.seg, c.disk, 0)) /\ c.ok \in BOOLEAN
          /\ SameSegment(w.seg, c.seg) /\ OthersFine(c.seg, c.disk) /\ Current(c.seg, c.disk, k) /\ c.seg.file # "open"
          /\ \A id : GoesOn(w.seg, w.disk, k, id) => GoesOn(c.seg, c.disk, k, id)
          /\ c.ok /\ 0 = 0 /\ format = "fmp4" /\ w.seg.part # Rec!NoPart =>
                 /\ c.disk[w.seg.start].creates > 0 /\ Whole(c.disk[w.seg.start])
                 /\ c.disk[w.seg.start].duration = w.seg.end - w.seg.start
                 /\ c.disk[w.seg.start].stream = instance.id /\ c.disk[w.seg.start].number = w.seg.number
      BY <1>6, <1>9, <3>1, SegmentCloses
    <3> QED BY <1>9, <3>1, <3>2
  <2>3. c.seg.start = w.seg.start /\ c.seg.end = w.seg.end /\ c.seg.number = w.seg.number
    BY <2>2 DEF SameSegment
  <2>4. CASE ~c.ok /\ Rec!Fails(c) /\ number' = w.seg.number + 1 /\ UNCHANGED silent
    BY <1>10, <1>17, <2>2, <2>3, <2>4
  <2>5. CASE /\ c.ok /\ disk' = c.disk /\ UNCHANGED instance
             /\ segment' = [start |-> pos, end |-> pos, number |-> w.seg.number + 1, file |-> "none",
                            part |-> Rec!NoPart, last |-> -1, lost |-> "nothing"]
             /\ number' = w.seg.number + 2 /\ silent' = Tracks \ Rec!Waiting(after)
    <3>1. PICK u \in Tracks : after[u] # Rec!Nothing /\ pos = after[u].dts /\ w.seg.start < pos
      <4>1. \A v \in Tracks : after[v] = Rec!Nothing \/ after[v].dts \in 0 .. MaxTime
        BY <1>1, <1>13
      <4>2. after[t].dts - w.seg.start >= SegmentDuration
        BY <1>12, <1>20
      <4>3. \E v \in Tracks : after[v] # Rec!Nothing /\ Rec!NextSegmentStartingPos(after) = after[v].dts /\ w.seg.start < after[v].dts
        BY <1>10, <1>12, <4>1, <4>2, NextStart
      <4> QED BY <4>3 DEF pos
    <3>2. \A v \in Tracks : after[v] # Rec!Nothing => pos <= after[v].dts
      <4>1. \A v \in Tracks : after[v] = Rec!Nothing \/ after[v].dts \in 0 .. MaxTime
        BY <1>1, <1>13
      <4>2. \A v, x \in Tracks : after[v] = Rec!Nothing \/ after[x] = Rec!Nothing \/ after[v].dts - after[x].dts <= Tolerance
        BY <1>1, <1>13, <1>14
      <4> QED BY <1>12, <4>1, <4>2, OldestStarts DEF pos
    <3>3. pos = k[u] /\ pos \in 0 .. MaxTime /\ pos \in Rec!Times /\ pos \in Nat
      BY <1>1, <1>13, <3>1, TimesAre
    <3>4. pos <= c.seg.end /\ c.seg.end <= pos + Tolerance
      <4>1. pos <= sample.dts
        BY <1>12, <3>2
      <4>2. PICK v \in Tracks : w.seg.end <= k[v]
        BY <1>10
      <4>3. k[v] - k[u] <= Tolerance /\ k[v] \in Nat
        BY <1>1, <1>14
      <4> QED BY <1>1, <1>6, <1>10, <2>3, <3>3, <4>1, <4>2, <4>3
    <3> DEFINE new == [start |-> pos, end |-> pos, number |-> w.seg.number + 1, file |-> "none", part |-> Rec!NoPart, last |-> -1, lost |-> "nothing"]
    <3>5. segment' = new /\ new.start = pos /\ new.end = pos /\ new.number = w.seg.number + 1 /\ new.file = "none"
      BY <2>5
    <3>6. w.seg.number + 1 \in 0 .. pos /\ Rec!NoPart \in [start : -1 .. MaxTime, end : -1 .. MaxTime]
      BY <1>1, <1>10, <3>1, <3>3 DEF Rec!NoPart
    <3>7. /\ FileBounds(c.disk[pos]) /\ c.disk[pos].creates = 0 /\ c.disk[pos].completes = 0
          /\ \A s \in Rec!Times : c.disk[s].creates > 0 => s <= c.seg.start
          /\ \A x : x.start = pos => OthersFine(x, c.disk)
      <4>1. Held(c.seg, c.disk, 0) /\ c.seg.start < pos
        BY <2>2, <2>3, <2>5, <3>1
      <4> QED BY <2>2, <3>3, <4>1, NothingThere
    <3>8. Held(new, c.disk, 0)
      <4>1. c.disk \in Disks
        BY <2>2 DEF Current
      <4> QED BY <3>3, <3>6, <3>7, <4>1, NewHeld
    <3> HIDE DEF new
    <3>9. Held(new, c.disk, 1)
      <4>1. Held(new, c.disk, 0 + 1)
        BY <3>8, HeldLater
      <4> QED BY <4>1
    <3>10. GoesOn(new, c.disk, k, instance.id)
      <4> DEFINE x == c.seg  e == c.disk  n == new
      <4>1. /\ GoesOn(x, e, k, instance.id) /\ e \in Disks /\ x.start \in Rec!Times /\ x.end \in Int /\ x.start <= x.end
            /\ x.number \in Nat /\ e[x.start].creates > 0 /\ e[x.start].stream = instance.id /\ Whole(e[x.start])
            /\ e[x.start].number = x.number /\ e[x.start].duration = x.end - x.start
        <5>1. /\ e \in Disks /\ e[x.start].creates > 0 /\ Whole(e[x.start])
              /\ e[x.start].stream = instance.id /\ e[x.start].number = x.number /\ e[x.start].duration = x.end - x.start
          BY <2>2, <2>3, <2>5 DEF Current
        <5> QED BY <1>10, <2>2, <2>3, <5>1
      <4>2. \E v \in Tracks : x.end <= k[v]
        BY <1>10, <2>3
      <4>3. \A s \in Rec!Times : e[s].creates > 0 => s <= x.start
        BY <3>7
      <4>4. /\ n.start \in Rec!Times /\ n.number = x.number + 1 /\ x.start < n.start
            /\ n.start <= x.end /\ x.end <= n.start + Tolerance
        BY <2>3, <3>1, <3>3, <3>4, <3>5
      <4> HIDE DEF x, e, n
      <4>5. GoesOn(n, e, k, instance.id)
        BY <1>6, <4>1, <4>2, <4>3, <4>4, NextGoesOn
      <4> QED BY <4>5 DEF n, e
    <3>11. StepInv'
      <4>1. Tracks \ silent' = Rec!Waiting(after) /\ silent' \subseteq Tracks
        BY <2>5 DEF Rec!Waiting
      <4>2. segment' # Rec!NoSegment
        BY <1>11, <3>3, <3>5
      <4>3. \A v \in Tracks \ silent' : after[v] # Rec!Nothing /\ segment'.start <= after[v].dts
        BY <3>2, <3>5, <4>1 DEF Rec!Waiting
      <4> QED BY <1>15, <2>5, <4>1, <4>2, <4>3
    <3>12. HeldInv' /\ OrderInv'
      <4> DEFINE e == c.disk
      <4>1. /\ Held(new, e, 1) /\ Held(new, e, 0) /\ new.file # "closed" /\ OthersFine(new, e)
            /\ GoesOn(new, e, clock', instance.id) /\ new # Rec!NoSegment
            /\ segment' = new /\ disk' = e /\ instance'.id = instance.id /\ \E v \in Tracks : new.end <= clock'[v]
        <5>1. new # Rec!NoSegment
          BY <1>11, <3>3, <3>5
        <5>2. new.end <= k[u]
          BY <3>3, <3>5
        <5> QED BY <2>5, <3>5, <3>7, <3>8, <3>9, <3>10, <5>1, <5>2 DEF k
      <4>2. number' = new.number + 1
        BY <1>10, <2>5, <3>5
      <4> HIDE DEF e
      <4> QED BY <1>1, <4>1, <4>2, SegmentKept
    <3> QED BY <3>11, <3>12
  <2> QED BY <2>1, <2>4, <2>5
<1> QED BY <1>4, <1>18, <1>19, <1>20 DEF Wrote, after, pos

(* MPEG-TS: what is left of the segment there was, or of the next one.     *)
HeldTS(seg, d, k) ==
    /\ Current(seg, d, k) /\ Held(seg, d, 1) /\ OthersFine(seg, d)
    /\ seg.number = 0 /\ \E t \in Tracks : seg.end <= k[t]
GoodTS(seg, d, k) == HeldTS(seg, d, k) /\ Held(seg, d, 0) /\ seg.file # "closed"
SoundTS(r, k) == HeldTS(r.seg, r.disk, k) /\ r.ok \in BOOLEAN /\ (r.ok => GoodTS(r.seg, r.disk, k))

LEMMA GoodSound ==
    ASSUME NEW seg, NEW d, NEW k, GoodTS(seg, d, k)
    PROVE  SoundTS(Rec!Result(TRUE, seg, d), k)
<1> DEFINE r == Rec!Result(TRUE, seg, d)
<1>1. r.ok = TRUE /\ r.seg = seg /\ r.disk = d
  BY DEF Rec!Result
<1> HIDE DEF r
<1>2. SoundTS(r, k)
  BY <1>1 DEF SoundTS, GoodTS
<1> QED BY <1>2 DEF r

LEMMA FlushSound ==
    ASSUME DoubledTracks = {}, instance.id \in 1 .. MaxInstances, NEW seg, NEW d, NEW k, format = "mpegts",
           GoodTS(seg, d, k), NEW c \in Rec!Flush(seg, d)
    PROVE  SoundTS(c, k)
<1>1. /\ Current(seg, d, k) /\ Kept(seg, d, 0) /\ OthersFine(seg, d) /\ seg.file # "closed"
      /\ seg.number = 0 /\ \E t \in Tracks : seg.end <= k[t]
  BY DEF SoundTS, HeldTS, GoodTS, Held
<1>2. /\ Kept(c.seg, c.disk, 0 + 1) /\ (c.ok => Kept(c.seg, c.disk, 0)) /\ c.seg.file # "closed" /\ SameSegment(seg, c.seg)
  BY <1>1, FlushKept
<1>3. Writes(seg, d, c)
  <2>1. seg \in SegmentTypes /\ seg.start \in Rec!Times /\ d \in Disks /\ FileInv(seg, d) /\ instance.id \in Nat
    BY <1>1, KeptTypes, MediaAssumption DEF Current, Rec!TimesAssumption
  <2> QED BY <2>1, FlushWrites
<1>4. Current(c.seg, c.disk, k) /\ c.ok \in BOOLEAN
  BY <1>1, <1>3, CurrentWrites
<1>5. c.seg.number = seg.number /\ c.seg.end = seg.end
  BY <1>2 DEF SameSegment
<1>6. OthersFine(c.seg, c.disk)
  BY <1>1, <1>3, <1>5, OthersWrites
<1>7. Held(c.seg, c.disk, 1) /\ (c.ok => Held(c.seg, c.disk, 0))
  BY <1>2 DEF Held
<1> QED BY <1>1, <1>2, <1>4, <1>5, <1>6, <1>7 DEF SoundTS, HeldTS, GoodTS

(* A change of what is in memory only.                                     *)
LEMMA ChangedSound ==
    ASSUME DoubledTracks = {}, NEW seg, NEW d, NEW k, HeldTS(seg, d, k), format = "mpegts",
           NEW x \in SegmentTypes, x.start = seg.start, x.file = seg.file, x.number = seg.number, SegmentBounds(x),
           \E t \in Tracks : x.end <= k[t]
    PROVE  HeldTS(x, d, k) /\ (GoodTS(seg, d, k) => GoodTS(x, d, k))
<1>1. Current(seg, d, k) /\ Kept(seg, d, 1) /\ OthersFine(seg, d) /\ seg.number = 0
  BY DEF HeldTS, Held
<1>2. Held(x, d, 1) /\ (Held(seg, d, 0) => Held(x, d, 0))
  BY <1>1, ChangedKept DEF Held
<1>3. Current(x, d, k) /\ OthersFine(x, d)
  BY <1>1 DEF Current, FileInv, OthersFine, Others
<1> QED BY <1>1, <1>2, <1>3 DEF HeldTS, GoodTS

LEMMA LastSound ==
    ASSUME DoubledTracks = {}, NEW seg, NEW d, NEW k, GoodTS(seg, d, k), format = "mpegts",
           NEW dts \in 0 .. MaxTime, NEW t \in Tracks, dts <= k[t]
    PROVE  GoodTS(Rec!LastDTS(seg, dts), d, k)
<1> DEFINE x == Rec!LastDTS(seg, dts)
<1>1. HeldTS(seg, d, k) /\ seg \in SegmentTypes /\ SegmentBounds(seg) /\ MaxTime \in Nat
  BY TimesAre DEF GoodTS, HeldTS, Held, Kept
<1>2. /\ x \in SegmentTypes /\ x.start = seg.start /\ x.file = seg.file /\ x.number = seg.number /\ x.end = dts
      /\ x.part = seg.part /\ x.last = seg.last
  BY <1>1 DEF Rec!LastDTS, SegmentTypes
<1> HIDE DEF x
<1>3. SegmentBounds(x)
  BY <1>1, <1>2 DEF SegmentBounds
<1>4. GoodTS(x, d, k)
  BY <1>1, <1>2, <1>3, ChangedSound
<1> QED BY <1>4 DEF x

LEMMA RefusedSound ==
    ASSUME DoubledTracks = {}, NEW p, NEW k, SoundTS(p, k), format = "mpegts", NEW r \in Rec!MuxerRefuses(p)
    PROVE  SoundTS(r, k)
<1> DEFINE seg == p.seg  d == p.disk  broken == [seg EXCEPT !.part = Rec!NoPart]
<1>1. r = Rec!Result(FALSE, seg, d) \/ r = Rec!Result(FALSE, broken, d)
  BY DEF Rec!MuxerRefuses
<1>2. HeldTS(seg, d, k) /\ seg \in SegmentTypes /\ SegmentBounds(seg) /\ MaxTime \in Nat
      /\ \E t \in Tracks : seg.end <= k[t]
  BY TimesAre DEF SoundTS, HeldTS, Held, Kept
<1> HIDE DEF seg, d
<1>3. broken \in SegmentTypes /\ broken.file = seg.file /\ SameSegment(seg, broken) /\ broken.part = Rec!NoPart
      /\ broken.last = seg.last
  BY <1>2, BrokenIs DEF SegmentTypes
<1> HIDE DEF broken
<1>4. SegmentBounds(broken)
  BY <1>2, <1>3 DEF SegmentBounds, SameSegment, Rec!NoPart
<1>5. HeldTS(broken, d, k)
  BY <1>2, <1>3, <1>4, ChangedSound DEF SameSegment
<1>6. r.ok = FALSE /\ r.disk = d /\ (r.seg = seg \/ r.seg = broken)
  BY <1>1 DEF Rec!Result
<1> QED BY <1>2, <1>5, <1>6 DEF SoundTS

(* A segment that is new.                                                  *)
LEMMA NewSound ==
    ASSUME DoubledTracks = {}, NEW d, NEW k \in [Tracks -> 0 .. MaxTime], number = 0, NEW dts \in 0 .. MaxTime,
           NEW t \in Tracks, dts <= k[t], format = "mpegts", FileBounds(d[dts]), d[dts].creates = 0, d[dts].completes = 0,
           OthersFine(Rec!NewSegmentTS(dts), d), Current(Rec!NewSegmentTS(dts), d, k)
    PROVE  GoodTS(Rec!NewSegmentTS(dts), d, k)
<1> DEFINE piece == [start |-> dts, end |-> dts]
           new == Rec!NewSegmentTS(dts)
<1>1. MaxTime \in Nat /\ piece \in [start : -1 .. MaxTime, end : -1 .. MaxTime] /\ 0 \in 0 .. dts
  BY TimesAre
<1>2. new = [start |-> dts, end |-> dts, number |-> 0, file |-> "none", part |-> piece,
           last |-> -1, lost |-> "nothing"]
  <2> DEFINE first == Rec!NewSegment(dts)
  <2>1. first = [start |-> dts, end |-> dts, number |-> number, file |-> "none", part |-> Rec!NoPart,
           last |-> -1, lost |-> "nothing"]
    BY NewSegmentIs DEF Rec!NewSegment
  <2>2. new = [first EXCEPT !.part = piece]
    BY Zenon DEF Rec!NewSegmentTS
  <2> HIDE DEF first, new, piece
  <2> QED BY <2>1, <2>2
<1> HIDE DEF new, piece
<1>3. Held(new, d, 0)
  <2>1. d \in Disks
    BY DEF Current, new
  <2> QED BY <1>1, <1>2, <2>1, NewHeld
<1>4. Held(new, d, 0 + 1)
  BY <1>3, HeldLater
<1>5. new.number = 0 /\ new.end = dts /\ new.file = "none"
  BY <1>2
<1>6. GoodTS(new, d, k)
  BY <1>3, <1>4, <1>5 DEF SoundTS, HeldTS, GoodTS, new
<1> QED BY <1>6 DEF new

LEMMA WrittenTSStep ==
    ASSUME RecordingInv, DoubledTracks = {}, format = "mpegts", NEW t \in Tracks, NEW step \in 1 .. MaxStep, Rec!Unit(t, step),
           Rec!InStep(t, step), NEW sample \in [dts : Int, sync : BOOLEAN], sample.dts = clock'[t], clock[t] < sample.dts,
           Rec!WriteTS(t, sample)
    PROVE  StepInv' /\ HeldInv' /\ OrderInv'
<1> DEFINE dts == sample.dts  k == clock'  new == Rec!NewSegmentTS(dts)
<1>1. /\ clock \in [Tracks -> 0 .. MaxTime] /\ k \in [Tracks -> 0 .. MaxTime] /\ MaxTime \in Nat /\ Tolerance \in Nat
      /\ k[t] = clock[t] + step /\ step \in Nat /\ step > 0
      /\ \A u \in Tracks : clock[u] <= k[u] /\ clock[u] \in Nat /\ k[u] \in Nat
      /\ \A u \in Tracks : u # t => k[u] = clock[u]
      /\ instance.at = "reading" /\ format' = format
      /\ instance \in [id : Nat, at : {"reading", "skipped", "failed", "closing", "done"}] /\ disk \in Disks
      /\ instance.id \in 1 .. MaxInstances
  <2>1. clock \in [Tracks -> 0 .. MaxTime] /\ disk \in Disks
        /\ instance \in [id : Nat, at : {"reading", "skipped", "failed", "closing", "done"}]
    BY DEF RecordingInv, RecorderInv, RecorderTypes
  <2>2. /\ k \in [Tracks -> 0 .. MaxTime] /\ k[t] = clock[t] + step /\ step \in Nat /\ step > 0
        /\ \A u \in Tracks : clock[u] <= k[u]
        /\ instance.at = "reading" /\ format' = format
    BY ClockStep DEF RecordingInv
  <2>3. \A u \in Tracks : u # t => k[u] = clock[u]
    BY <2>1 DEF Rec!Unit
  <2>4. MaxTime \in Nat /\ Tolerance \in Nat /\ instance.id \in 1 .. MaxInstances
    BY MediaAssumption DEF Rec!TimesAssumption, RecordingInv, StepInv
  <2> QED BY <2>1, <2>2, <2>3, <2>4
<1>2. dts \in 0 .. MaxTime /\ dts \in Nat /\ dts <= k[t] /\ clock[t] < dts /\ dts \in Rec!Times
  BY <1>1, TimesAre
<1>3. number = 0 /\ (segment # Rec!NoSegment => segment.number = 0)
  BY DEF RecordingInv, HeldInv
<1> HIDE DEF dts, k, new
<1>4. new \in SegmentTypes /\ new.start = dts /\ new.file = "none"
  <2> DEFINE first == Rec!NewSegment(dts)  piece == [start |-> dts, end |-> dts]
  <2>1. first = [start |-> dts, end |-> dts, number |-> number, file |-> "none", part |-> Rec!NoPart,
           last |-> -1, lost |-> "nothing"]
    BY NewSegmentIs DEF Rec!NewSegment
  <2>2. new = [first EXCEPT !.part = piece]
    BY Zenon DEF Rec!NewSegmentTS, new
  <2> HIDE DEF first, new
  <2>3. new = [start |-> dts, end |-> dts, number |-> 0, file |-> "none", part |-> piece,
           last |-> -1, lost |-> "nothing"]
    BY <1>3, <2>1, <2>2
  <2> QED BY <1>2, <2>3 DEF SegmentTypes, Losses
(* The segment there is.                                                   *)
<1>5. ASSUME segment # Rec!NoSegment PROVE GoodTS(segment, disk, k) /\ segment.start \in Nat
  <2>1. Current(segment, disk, k) /\ segment.start \in Nat
    <3>1. Current(segment, disk, clock)
      BY <1>5 DEF RecordingInv, RecorderInv, DiskInv
    <3> QED BY <1>1, <3>1, CurrentLater, TimesAre DEF Current
  <2>2. Held(segment, disk, 1) /\ Held(segment, disk, 0) /\ segment.file # "closed" /\ OthersFine(segment, disk)
    BY <1>1, <1>5 DEF RecordingInv, HeldInv
  <2>3. \E u \in Tracks : segment.end <= k[u]
    <3>1. PICK u \in Tracks : segment.end <= clock[u]
      BY <1>5 DEF RecordingInv, HeldInv
    <3>2. segment.end \in Int
      BY <2>2 DEF Held, Kept, SegmentTypes
    <3> QED BY <1>1, <3>1, <3>2
  <2> QED BY <1>3, <1>5, <2>1, <2>2, <2>3 DEF SoundTS, HeldTS, GoodTS
(* The first one.                                                          *)
<1>6. ASSUME segment = Rec!NoSegment PROVE GoodTS(new, disk, k)
  <2>1. /\ \A s \in Rec!Times : IsCompleted(disk[s]) /\ (disk[s].creates > 0 => s < dts)
        /\ \A s \in Rec!Times : disk[s] \in FileTypes /\ s \in Nat
    <3>1. \A s \in Rec!Times : IsCompleted(disk[s]) /\ (disk[s].creates > 0 => s <= clock[t])
      BY <1>1, <1>6 DEF RecordingInv, RecorderInv, DiskInv
    <3>2. \A s \in Rec!Times : disk[s] \in FileTypes /\ s \in Nat
      BY <1>1, TimesAre DEF Disks
    <3> QED BY <1>1, <1>2, <3>1, <3>2
  <2>2. disk[dts].creates = 0 /\ disk[dts].completes = 0
    <3>1. ~(disk[dts].creates > 0) /\ disk[dts] \in FileTypes /\ disk[dts].completes <= disk[dts].creates
      BY <1>2, <2>1 DEF IsCompleted
    <3> QED BY <3>1 DEF FileTypes
  <2>3. \A s \in Rec!Times : FileBounds(disk[s]) /\ disk[s].creates <= 3
    <3>1. \A s \in Rec!Times : s # -1
      BY <2>1
    <3> QED BY <1>6, <3>1 DEF RecordingInv, HeldInv, OthersFine, Others, Rec!NoSegment
  <2>4. OthersFine(new, disk)
    BY <2>3 DEF OthersFine, Others
  <2>5. Current(new, disk, k)
    BY <1>1, <1>2, <1>4, <2>1, FirstIsCurrent
  <2> QED BY <1>1, <1>2, <1>3, <2>2, <2>3, <2>4, <2>5, NewSound DEF new
(* The next one.                                                           *)
<1>7. ASSUME segment # Rec!NoSegment, dts - segment.start >= SegmentDuration,
             NEW c \in Rec!CloseSegment(Rec!LastDTS(segment, dts), disk)
      PROVE  /\ c.ok => GoodTS(new, c.disk, k)
             /\ ~c.ok => SoundTS(c, k)
  <2> DEFINE x == Rec!LastDTS(segment, dts)
  <2>1. GoodTS(x, disk, k) /\ x.start = segment.start
    <3>1. GoodTS(x, disk, k)
      BY <1>2, <1>5, <1>7, LastSound
    <3> QED BY <3>1 DEF Rec!LastDTS
  <2> HIDE DEF x
  <2>2. Held(x, disk, 0) /\ OthersFine(x, disk) /\ Current(x, disk, k) /\ x.number = 0 /\ \E u \in Tracks : x.end <= k[u]
    BY <2>1 DEF SoundTS, HeldTS, GoodTS
  <2>3. /\ Held(c.seg, c.disk, 0 + 1) /\ (c.ok => Held(c.seg, c.disk, 0)) /\ c.ok \in BOOLEAN
        /\ SameSegment(x, c.seg) /\ OthersFine(c.seg, c.disk) /\ Current(c.seg, c.disk, k) /\ c.seg.file # "open"
    BY <1>1, <1>7, <2>2, SegmentCloses DEF x
  <2>4. c.seg.number = 0 /\ c.seg.start = segment.start /\ \E u \in Tracks : c.seg.end <= k[u]
    BY <2>1, <2>2, <2>3 DEF SameSegment
  <2>5. ASSUME ~c.ok PROVE SoundTS(c, k)
    BY <2>3, <2>4, <2>5 DEF SoundTS, HeldTS, GoodTS
  <2>6. ASSUME c.ok PROVE GoodTS(new, c.disk, k)
    <3>1. c.seg.start < dts
      <4>1. SegmentDuration \in Nat /\ SegmentDuration > 0
        BY MediaAssumption DEF Rec!TimesAssumption
      <4> QED BY <1>2, <1>5, <1>7, <2>4, <4>1
    <3>2. Held(c.seg, c.disk, 0) /\ c.disk \in Disks
      BY <2>3, <2>6 DEF Held, Kept
    <3>3. /\ FileBounds(c.disk[dts]) /\ c.disk[dts].creates = 0 /\ c.disk[dts].completes = 0
          /\ \A y : y.start = dts => OthersFine(y, c.disk)
      BY <1>2, <2>3, <3>1, <3>2, NothingThere
    <3>4. Current(new, c.disk, k)
      BY <1>2, <1>4, <2>3, <3>1, NextIsCurrent
    <3> QED BY <1>1, <1>2, <1>3, <1>4, <3>2, <3>3, <3>4, NewSound DEF new
  <2> QED BY <2>5, <2>6
(* A part of it.                                                           *)
<1>8. ASSUME segment # Rec!NoSegment, NEW c \in Rec!Flush(segment, disk), c.ok
      PROVE  GoodTS([c.seg EXCEPT !.part.start = dts], c.disk, k)
  <2>1. SoundTS(c, k)
    BY <1>1, <1>5, <1>8, FlushSound
  <2> DEFINE piece == [c.seg.part EXCEPT !.start = dts]
             x == [c.seg EXCEPT !.part = piece]
  <2>2. /\ GoodTS(c.seg, c.disk, k) /\ HeldTS(c.seg, c.disk, k) /\ c.seg \in SegmentTypes /\ SegmentBounds(c.seg)
        /\ c.seg.part \in [start : Int, end : Int] /\ \E u \in Tracks : c.seg.end <= k[u]
    BY <1>8, <2>1 DEF SoundTS, HeldTS, GoodTS, Held, Kept, SegmentTypes
  <2>3. piece \in [start : Int, end : Int] /\ piece.start = dts /\ piece.end = c.seg.part.end
    BY <1>2, <2>2
  <2>4. x = [c.seg EXCEPT !.part.start = dts]
    OBVIOUS
  <2> HIDE DEF piece
  <2>5. /\ x \in SegmentTypes /\ x.start = c.seg.start /\ x.end = c.seg.end /\ x.number = c.seg.number
        /\ x.file = c.seg.file /\ x.part = piece /\ x.last = c.seg.last
    BY <2>2, <2>3 DEF SegmentTypes
  <2> HIDE DEF x
  <2>6. SegmentBounds(x)
    BY <1>1, <1>2, <2>2, <2>3, <2>5 DEF SegmentBounds
  <2>7. GoodTS(x, c.disk, k)
    BY <2>2, <2>5, <2>6, ChangedSound
  <2> QED BY <2>4, <2>7
<1>9. PICK results :
          /\ results =
                 IF segment = Rec!NoSegment THEN {Rec!Result(TRUE, new, disk)}
                 ELSE IF Rec!Switches(t, sample, hasVideo', segment.start)
                 THEN {IF c.ok THEN Rec!Result(TRUE, new, c.disk) ELSE c
                          : c \in Rec!CloseSegment(Rec!LastDTS(segment, dts), disk)}
                 ELSE IF dts - segment.part.start >= PartDuration
                 THEN {IF c.ok THEN Rec!Result(TRUE, [c.seg EXCEPT !.part.start = dts], c.disk) ELSE c
                          : c \in Rec!Flush(segment, disk)}
                 ELSE {Rec!Result(TRUE, segment, disk)}
          /\ \E r \in UNION {Rec!Buffered(IF q.ok THEN Rec!Result(TRUE, Rec!LastDTS(q.seg, dts), q.disk) ELSE q)
                                 : q \in results} :
                 IF r.ok THEN segment' = r.seg /\ disk' = r.disk /\ UNCHANGED instance ELSE Rec!Fails(r)
  BY Zenon DEF Rec!WriteTS, dts, new
<1>10. ASSUME NEW q \in results PROVE SoundTS(q, k)
  <2>1. CASE segment = Rec!NoSegment
    BY <1>6, <1>9, <2>1, GoodSound
  <2>2. CASE segment # Rec!NoSegment /\ Rec!Switches(t, sample, hasVideo', segment.start)
    <3>1. PICK c \in Rec!CloseSegment(Rec!LastDTS(segment, dts), disk) :
              q = IF c.ok THEN Rec!Result(TRUE, new, c.disk) ELSE c
      BY <1>9, <2>2
    <3>2. dts - segment.start >= SegmentDuration
      BY <2>2 DEF Rec!Switches, dts
    <3> QED BY <1>7, <2>2, <3>1, <3>2, GoodSound
  <2>3. CASE /\ segment # Rec!NoSegment /\ ~Rec!Switches(t, sample, hasVideo', segment.start)
             /\ dts - segment.part.start >= PartDuration
    <3>1. PICK c \in Rec!Flush(segment, disk) :
              q = IF c.ok THEN Rec!Result(TRUE, [c.seg EXCEPT !.part.start = dts], c.disk) ELSE c
      BY <1>9, <2>3
    <3>2. SoundTS(c, k)
      BY <1>1, <1>5, <2>3, <3>1, FlushSound
    <3> QED BY <1>8, <2>3, <3>1, <3>2, GoodSound
  <2>4. CASE q = Rec!Result(TRUE, segment, disk) /\ segment # Rec!NoSegment
    BY <1>5, <2>4, GoodSound
  <2> QED BY <1>9, <2>1, <2>2, <2>3, <2>4
<1> DEFINE Flushed(q) == IF q.ok THEN Rec!Result(TRUE, Rec!LastDTS(q.seg, dts), q.disk) ELSE q
           Leaves(r) == IF r.ok THEN segment' = r.seg /\ disk' = r.disk /\ UNCHANGED instance ELSE Rec!Fails(r)
<1>11. PICK q \in results : \E r \in Rec!Buffered(Flushed(q)) : Leaves(r)
  <2>1. \E r \in UNION {Rec!Buffered(Flushed(q)) : q \in results} : Leaves(r)
    BY Zenon, <1>9
  <2> HIDE DEF Flushed, Leaves
  <2> QED BY <2>1
<1> DEFINE p == Flushed(q)
<1>12. PICK r \in Rec!Buffered(p) : Leaves(r)
  BY Zenon, <1>11
<1>13. SoundTS(p, k)
  <2>1. SoundTS(q, k)
    BY <1>10
  <2>2. CASE q.ok
    <3>1. GoodTS(q.seg, q.disk, k)
      BY <2>1, <2>2 DEF SoundTS
    <3>2. GoodTS(Rec!LastDTS(q.seg, dts), q.disk, k)
      BY <1>2, <3>1, LastSound
    <3>3. p = Rec!Result(TRUE, Rec!LastDTS(q.seg, dts), q.disk)
      BY <2>2
    <3> HIDE DEF p
    <3> QED BY <3>2, <3>3, GoodSound
  <2>3. CASE ~q.ok
    BY <2>1, <2>3
  <2> QED BY <2>2, <2>3
<1> HIDE DEF p
<1>14. SoundTS(r, k)
  <2>1. r = p \/ (p.ok /\ (r \in Rec!Flush(p.seg, p.disk) \/ r \in Rec!MuxerRefuses(p)))
    BY <1>12 DEF Rec!Buffered
  <2>2. p.ok => GoodTS(p.seg, p.disk, k)
    BY <1>13 DEF SoundTS
  <2> QED BY <1>1, <1>13, <2>1, <2>2, FlushSound, RefusedSound
<1>15. segment' = r.seg /\ disk' = r.disk
       /\ (instance' = instance \/ (~r.ok /\ instance' = [instance EXCEPT !.at = "failed"]))
  BY <1>12 DEF Rec!Fails
<1>16. UNCHANGED <<next, number, silent, dropped>> /\ hasVideo' \in BOOLEAN
  BY DEF Rec!WriteTS
<1>17. instance'.id = instance.id /\ (instance'.at # "failed" => r.ok)
  BY <1>1, <1>12, <1>15 DEF Rec!Fails
<1>18. r.seg # Rec!NoSegment
  <2>1. r.seg.start \in Nat
    BY <1>14, TimesAre DEF SoundTS, HeldTS, GoodTS, Current
  <2> QED BY <2>1 DEF Rec!NoSegment
<1>19. HeldInv' /\ OrderInv'
  <2> DEFINE x == r.seg  e == r.disk
  <2>1. /\ Held(x, e, 1) /\ (r.ok => Held(x, e, 0) /\ x.file # "closed") /\ OthersFine(x, e) /\ x.number = 0
        /\ \E u \in Tracks : x.end <= clock'[u]
    BY <1>14 DEF SoundTS, HeldTS, GoodTS, k
  <2>2. segment' = x /\ disk' = e /\ x # Rec!NoSegment /\ number' = 0
    BY <1>3, <1>15, <1>16, <1>18
  <2> HIDE DEF x, e
  <2> QED BY <1>1, <1>17, <2>1, <2>2, SegmentKept
<1>20. \A u, v \in Tracks : k[u] - k[v] <= Tolerance
  <2>1. ASSUME NEW u \in Tracks, NEW v \in Tracks PROVE k[u] - k[v] <= Tolerance
    <3>1. clock[u] - clock[v] <= Tolerance /\ clock[t] + step - clock[v] <= Tolerance
      BY DEF RecordingInv, StepInv, Rec!InStep
    <3>2. clock[v] <= k[v] /\ (u = t \/ k[u] = clock[u])
      BY <1>1
    <3> QED BY <1>1, <3>1, <3>2
  <2> QED BY <2>1
<1>21. StepInv'
  <2>1. /\ dropped' = {} /\ silent' = Tracks /\ instance'.id \in 1 .. MaxInstances
        /\ \A u \in Tracks : next'[u] = Rec!Nothing
    <3>1. \A u \in Tracks : next[u] = Rec!Nothing
      BY DEF RecordingInv, StepInv
    <3>2. silent = Tracks /\ dropped = {}
      BY <1>1, <3>1 DEF RecordingInv, StepInv
    <3> QED BY <1>1, <1>16, <1>17, <3>1, <3>2
  <2> QED BY <1>16, <1>20, <2>1 DEF StepInv, k
<1> QED BY <1>19, <1>21

(* A file that is closed, or was never open, when its instance ends.       *)
LEMMA ClosedIsSane ==
    ASSUME NEW seg, NEW d, NEW n \in Nat, Held(seg, d, n), seg.file # "open", format = "fmp4", DoubledTracks = {},
           instance.id \in 1 .. MaxInstances, d[seg.start].creates > 0
    PROVE  /\ d[seg.start].stream = instance.id /\ d[seg.start].number = seg.number /\ Sane(d[seg.start])
           /\ Finished(d, seg.start) <= seg.end
<1> DEFINE file == d[seg.start]
<1>1. /\ file \in FileTypes /\ MaxTime \in Nat /\ MaxInstances \in Nat /\ SegmentBounds(seg) /\ FileBounds(file)
      /\ Saved(seg, file, n) /\ file.creates > 0 /\ seg.file \in {"none", "closed"}
  BY KeptTypes, MediaAssumption DEF Held, Kept, FileKept, Rec!TimesAssumption
<1> HIDE DEF file
<1>2. /\ seg.start \in Nat /\ seg.end \in Nat /\ seg.start <= seg.end /\ file.duration \in Int /\ file.written \in Nat
      /\ file.stream \in Nat /\ file.stream > 0 /\ file.stream = instance.id /\ file.number = seg.number
      /\ file.written <= seg.end - seg.start
  BY <1>1 DEF SegmentBounds, FileBounds, Saved
<1>3. Sane(file) /\ Length(file) <= seg.end - seg.start /\ Length(file) \in Int
  <2>1. CASE seg.file = "none"
    BY <1>1, <1>2, <2>1 DEF Saved, Sane, Length, Rec!CanBeParsed
  <2>2. CASE seg.file = "closed"
    BY <1>1, <1>2, <2>2 DEF Saved, Sane, Length, Rec!CanBeParsed
  <2> QED BY <1>1, <2>1, <2>2
<1>4. seg.start + Rec!Later(Length(file), file.written) <= seg.end
  BY <1>2, <1>3 DEF Rec!Later
<1> QED BY <1>2, <1>3, <1>4 DEF Finished, file

(* The instance ends: its segment is closed.                               *)
LEMMA EndedStep ==
    ASSUME RecordingInv, DoubledTracks = {}, Rec!InstanceEnds
    PROVE  StepInv' /\ HeldInv' /\ OrderInv'
<1>1. PICK c \in IF segment = Rec!NoSegment THEN {Rec!Result(TRUE, segment, disk)} ELSE Rec!CloseSegment(segment, disk) :
          disk' = c.disk
  BY DEF Rec!InstanceEnds, Rec!FormatClose
<1>2. /\ instance' = [instance EXCEPT !.at = "done"] /\ next' = [t \in Tracks |-> Rec!Nothing] /\ hasVideo' = FALSE
      /\ number' = 0 /\ segment' = Rec!NoSegment /\ silent' = Tracks /\ UNCHANGED <<recorder, closing, format, clock, dropped>>
  BY DEF Rec!InstanceEnds
<1>3. /\ instance \in [id : Nat, at : {"reading", "skipped", "failed", "closing", "done"}]
      /\ disk \in Disks /\ format \in {"fmp4", "mpegts"} /\ MaxTime \in Nat /\ clock \in [Tracks -> 0 .. MaxTime]
      /\ \A s \in Rec!Times : s \in Nat
  BY TimesAre DEF RecordingInv, RecorderInv, RecorderTypes
<1>4. instance'.at = "done" /\ instance'.id = instance.id /\ instance.id \in 1 .. MaxInstances /\ instance.id \in Nat
  BY <1>2, <1>3 DEF RecordingInv, StepInv
<1>5. StepInv'
  BY <1>2, <1>4 DEF RecordingInv, StepInv
<1>6. (\A s \in Rec!Times : FileBounds(disk'[s]) /\ disk'[s].creates <= 3) /\
      (format = "fmp4" =>
          /\ Sorted(c.disk, Rec!Times) /\ EndsBy(c.disk, Rec!Times, clock)
          /\ \A s \in Rec!Times : c.disk[s].creates > 0 => c.disk[s].stream <= instance.id)
  <2>1. CASE segment = Rec!NoSegment
    <3>1. c.disk = disk
      BY <1>1, <2>1 DEF Rec!Result
    <3>2. \A s \in Rec!Times : s # -1
      BY <1>3
    <3>3. \A s \in Rec!Times : FileBounds(disk[s]) /\ disk[s].creates <= 3
      BY <2>1, <3>2 DEF RecordingInv, HeldInv, OthersFine, Others, Rec!NoSegment
    <3> QED BY <1>1, <2>1, <3>1, <3>3 DEF RecordingInv, OrderInv
  <2>2. CASE segment # Rec!NoSegment
    <3> DEFINE x == c.seg  e == c.disk
    <3>1. Held(segment, disk, 1) /\ OthersFine(segment, disk) /\ Current(segment, disk, clock)
          /\ \E t \in Tracks : segment.end <= clock[t]
      BY <2>2 DEF RecordingInv, RecorderInv, HeldInv, DiskInv
    <3>2. /\ Held(x, e, 1 + 1) /\ SameSegment(segment, x) /\ OthersFine(x, e) /\ Current(x, e, clock) /\ x.file # "open"
          /\ \A id : GoesOn(segment, disk, clock, id) => GoesOn(x, e, clock, id)
      <4>1. c \in Rec!CloseSegment(segment, disk)
        BY <1>1, <2>2
      <4> QED BY <1>4, <3>1, <4>1, SegmentCloses
    <3>3. x.start \in Rec!Times /\ FileBounds(e[x.start]) /\ e[x.start].creates <= 3 /\ e \in Disks
      <4>1. x.start \in Rec!Times /\ e \in Disks /\ e[x.start] \in FileTypes /\ e[x.start].creates \in Nat
        BY <3>2, KeptTypes DEF Held
      <4>2. FileBounds(e[x.start]) /\ e[x.start].creates <= 1 + 1 + 1
        BY <3>2, <4>1 DEF Held, Kept, FileKept
      <4> HIDE DEF x, e
      <4> QED BY <4>1, <4>2
    <3>4. \A s \in Rec!Times : FileBounds(e[s]) /\ e[s].creates <= 3
      BY <3>2, <3>3 DEF OthersFine, Others
    <3>5. ASSUME format = "fmp4"
          PROVE  /\ Sorted(e, Rec!Times) /\ EndsBy(e, Rec!Times, clock)
                 /\ \A s \in Rec!Times : e[s].creates > 0 => e[s].stream <= instance.id
      <4>1. GoesOn(x, e, clock, instance.id)
        BY <2>2, <3>2, <3>5 DEF RecordingInv, OrderInv
      <4>2. x.end \in Int /\ x.number \in Nat
        BY <1>3, <3>2 DEF Held, Kept, SegmentBounds
      <4>3. e[x.start].creates > 0 =>
                /\ e[x.start].stream = instance.id /\ e[x.start].number = x.number /\ Sane(e[x.start])
                /\ Finished(e, x.start) <= x.end
        BY <1>4, <3>2, <3>5, ClosedIsSane
      <4>4. \E t \in Tracks : x.end <= clock[t]
        BY <3>1, <3>2 DEF SameSegment
      <4>5. \A s \in Rec!Times : e[s].creates > 0 => s <= x.start
        BY <3>2 DEF Current
      <4> HIDE DEF x, e
      <4> QED BY <1>3, <1>4, <3>3, <4>1, <4>2, <4>3, <4>4, <4>5, AllSorted
    <3> QED BY <1>1, <3>4, <3>5
  <2> QED BY <2>1, <2>2
<1>7. HeldInv'
  <2>1. OthersFine(segment, disk)'
    BY <1>6 DEF OthersFine, Others, FileBounds
  <2> QED BY <1>2, <2>1 DEF HeldInv
<1>8. OrderInv'
  <2> DEFINE e == c.disk
  <2>1. format = "fmp4" =>
          /\ Sorted(disk, Rec!Times)' /\ EndsBy(disk, Rec!Times, clock)'
          /\ \A s \in Rec!Times : disk'[s].creates > 0 => disk'[s].stream <= instance.id
    <3>1. disk' = e /\ clock' = clock
      BY <1>1, <1>2
    <3> HIDE DEF e
    <3> QED BY <1>6, <3>1 DEF Sorted, EndsBy, e
  <2> QED BY <1>2, <1>4, <2>1 DEF OrderInv
<1> QED BY <1>5, <1>7, <1>8

(* The next instance.                                                      *)
LEMMA RestartedStep ==
    ASSUME RecordingInv, DoubledTracks = {}, Rec!Restart
    PROVE  StepInv' /\ HeldInv' /\ OrderInv'
<1>1. /\ recorder = "pausing" /\ recorder' = "running" /\ instance.id < MaxInstances
      /\ instance' = [id |-> instance.id + 1, at |-> "reading"]
      /\ UNCHANGED <<closing, format, next, hasVideo, number, segment, disk, silent, dropped>>
  BY DEF Rec!Restart, Rec!formatVars
<1>2. PICK furthest \in {clock[t] : t \in Tracks} :
          (\A t \in Tracks : clock[t] <= furthest) /\ clock' = [t \in Tracks |-> furthest]
  BY DEF Rec!Restart
<1>3. /\ instance \in [id : Nat, at : {"reading", "skipped", "failed", "closing", "done"}]
      /\ clock \in [Tracks -> 0 .. MaxTime] /\ disk \in Disks /\ Tolerance \in Nat /\ MaxTime \in Nat
      /\ \A t \in Tracks : clock[t] \in Nat /\ clock[t] <= clock'[t] /\ clock'[t] = furthest
      /\ furthest \in 0 .. MaxTime /\ clock' \in [Tracks -> 0 .. MaxTime] /\ furthest \in Nat
      /\ \A s \in Rec!Times : Finished(disk, s) \in Int /\ disk[s].stream \in Nat
  <2>1. Tolerance \in Nat
    BY MediaAssumption DEF Rec!TimesAssumption
  <2>2. /\ instance \in [id : Nat, at : {"reading", "skipped", "failed", "closing", "done"}]
        /\ clock \in [Tracks -> 0 .. MaxTime] /\ disk \in Disks /\ MaxTime \in Nat
    BY TimesAre DEF RecordingInv, RecorderInv, RecorderTypes
  <2>3. \A s \in Rec!Times : Finished(disk, s) \in Int /\ disk[s].stream \in Nat
    BY <2>2, DiskIs
  <2> QED BY <1>2, <2>1, <2>2, <2>3
<1>4. segment = Rec!NoSegment /\ \A t \in Tracks : next[t] = Rec!Nothing
  BY <1>1 DEF RecordingInv, RecorderInv, LifeInv
<1>5. instance'.at = "reading" /\ instance'.id = instance.id + 1 /\ instance'.id \in 1 .. MaxInstances
      /\ instance.id \in 1 .. MaxInstances /\ instance.id \in Nat
  BY <1>1, <1>3, MediaAssumption DEF RecordingInv, StepInv, Rec!TimesAssumption
<1>6. StepInv'
  <2>1. \A t, u \in Tracks : clock'[t] - clock'[u] <= Tolerance
    BY <1>3
  <2> QED BY <1>1, <1>4, <1>5, <2>1 DEF RecordingInv, StepInv
<1>7. HeldInv'
  BY <1>1, <1>4 DEF RecordingInv, HeldInv, OthersFine, Others, FileBounds
<1>8. ASSUME format = "fmp4"
      PROVE  /\ Sorted(disk, Rec!Times) /\ EndsBy(disk, Rec!Times, clock') /\ OverBy(disk, clock', next)
             /\ \A s \in Rec!Times : disk[s].creates > 0 => disk[s].stream < instance.id + 1 /\ disk[s].stream <= instance.id + 1
  <2> DEFINE S == Rec!Times  k == clock'
  <2>1. Sorted(disk, S) /\ EndsBy(disk, S, clock) /\ \A s \in S : disk[s].creates > 0 => disk[s].stream <= instance.id
    BY <1>4, <1>8 DEF RecordingInv, OrderInv
  <2>2. \A s \in S : disk[s].creates > 0 => disk[s].stream < instance.id + 1 /\ disk[s].stream <= instance.id + 1
    BY <1>3, <1>5, <2>1
  <2>3. EndsBy(disk, S, k)
    <3>1. S \in SUBSET Rec!Times /\ k \in [Tracks -> 0 .. MaxTime] /\ \A t \in Tracks : clock[t] <= k[t]
      BY <1>3
    <3> HIDE DEF S, k
    <3> QED BY <1>3, <2>1, <3>1, EndsByLater
  <2>4. OverBy(disk, k, next)
    <3>1. ASSUME NEW s \in Rec!Times, disk[s].creates > 0, NEW t \in Tracks PROVE Finished(disk, s) <= k[t]
      <4>1. PICK u \in Tracks : Finished(disk, s) <= clock[u]
        BY <2>1, <3>1 DEF EndsBy
      <4>2. clock[u] <= furthest /\ k[t] = furthest
        BY <1>2, <1>3
      <4> QED BY <1>3, <4>1, <4>2
    <3> QED BY <1>4, <3>1 DEF OverBy
  <2> QED BY <2>1, <2>2, <2>3, <2>4
<1>9. OrderInv'
  <2>1. format = "fmp4" =>
            /\ Sorted(disk, Rec!Times)' /\ EndsBy(disk, Rec!Times, clock)' /\ OverBy(disk, clock, next)'
            /\ \A s \in Rec!Times : disk'[s].creates > 0 => disk'[s].stream < instance'.id /\ disk'[s].stream <= instance'.id
    BY <1>1, <1>5, <1>8 DEF Sorted, EndsBy, OverBy
  <2> QED BY <1>1, <1>4, <2>1 DEF OrderInv
<1> QED BY <1>6, <1>7, <1>9

(* The goroutine of the recorder, and Recorder.Close.                      *)
LEMMA ControlStep ==
    ASSUME RecordingInv, DoubledTracks = {},
           Rec!InstanceDone \/ Rec!Terminated \/ Rec!RunEnds \/ Rec!Close \/ Rec!CloseReturns
    PROVE  StepInv' /\ HeldInv' /\ OrderInv'
<1>1. UNCHANGED <<format, clock, next, hasVideo, number, segment, disk, silent, dropped>>
  BY DEF Rec!InstanceDone, Rec!Terminated, Rec!RunEnds, Rec!Close, Rec!CloseReturns, Rec!formatVars
<1>2. /\ clock \in [Tracks -> 0 .. MaxTime] /\ next \in [Tracks -> [dts : Int, sync : BOOLEAN]]
      /\ instance \in [id : Nat, at : {"reading", "skipped", "failed", "closing", "done"}]
      /\ \A t \in Tracks : clock[t] \in Nat
  BY TimesAre DEF RecordingInv, RecorderInv, RecorderTypes
<1>3. instance' = instance \/ (instance.at \in {"reading", "skipped"} /\ instance' = [instance EXCEPT !.at = "closing"])
  BY DEF Rec!InstanceDone, Rec!Terminated, Rec!RunEnds, Rec!Close, Rec!CloseReturns
<1>4. /\ instance'.id = instance.id /\ (instance'.at = "reading" => instance.at = "reading")
      /\ instance'.at # "failed" => instance.at # "failed"
  BY <1>2, <1>3
<1>5. HeldInv' /\ OrderInv'
  <2>1. \A u \in Tracks : clock[u] <= clock'[u]
    BY <1>1, <1>2
  <2> QED BY <1>1, <1>2, <1>4, <2>1, LeftAsItIs
<1>6. StepInv'
  BY <1>1, <1>4 DEF RecordingInv, StepInv
<1> QED BY <1>5, <1>6

LEMMA DataStep ==
    ASSUME RecordingInv, DoubledTracks = {}, NEW t \in Tracks,
           Rec!OnDataFMP4(t) \/ Rec!OnDataMPEGTS(t) \/ Rec!OnDataSkipped(t) \/ Rec!OnDataError(t)
    PROVE  StepInv' /\ HeldInv' /\ OrderInv'
<1>0. RecorderInv /\ instance \in [id : Nat, at : {"reading", "skipped", "failed", "closing", "done"}] /\ hasVideo \in BOOLEAN
      /\ clock \in [Tracks -> 0 .. MaxTime]
  BY DEF RecordingInv, RecorderInv, RecorderTypes, StepInv
<1>1. CASE Rec!OnDataFMP4(t)
  <2>1. PICK step \in 1 .. MaxStep, sync \in BOOLEAN :
            /\ format = "fmp4" /\ Rec!Unit(t, step) /\ Rec!InStep(t, step)
            /\ \E sample \in {[dts |-> Rec!Dts(t, clock[t] + step), sync |-> sync]} :
                   Rec!KeepSample(t, sample) \/ Rec!DiscardSample(t, sample) \/ Rec!WriteSample(t, sample)
    BY <1>1 DEF Rec!OnDataFMP4
  <2>2. PICK sample : /\ sample = [dts |-> Rec!Dts(t, clock[t] + step), sync |-> sync]
                      /\ Rec!KeepSample(t, sample) \/ Rec!DiscardSample(t, sample) \/ Rec!WriteSample(t, sample)
    BY <2>1
  <2>3. sample \in [dts : Int, sync : BOOLEAN] /\ sample.dts = clock'[t] /\ clock[t] < sample.dts
    BY <1>0, <2>1, <2>2, SampleIs
  <2>4. CASE Rec!WriteSample(t, sample)
    BY <2>1, <2>3, <2>4, WrittenStep
  <2>5. CASE Rec!KeepSample(t, sample)
    <3>1. next' = [next EXCEPT ![t] = sample] /\ UNCHANGED <<instance, segment, disk, number, silent, dropped>>
          /\ hasVideo' \in BOOLEAN
      BY <2>5 DEF Rec!KeepSample, Rec!lifeVars
    <3> QED BY <2>1, <2>3, <3>1, SamplesKept
  <2>6. CASE Rec!DiscardSample(t, sample)
    <3>1. /\ next[t] # Rec!Nothing /\ segment # Rec!NoSegment /\ next[t].dts < segment.start
          /\ next' = [next EXCEPT ![t] = Rec!Following(t, sample)]
          /\ dropped' = (IF t \in silent THEN dropped ELSE dropped \cup {t})
          /\ UNCHANGED <<instance, segment, disk, number, silent>> /\ hasVideo' \in BOOLEAN
      BY <2>6 DEF Rec!DiscardSample, Rec!lifeVars
    <3>2. Rec!Following(t, sample) = sample
      BY <1>0, <2>3, <3>1, FollowingIs
    <3>3. t \in silent
      <4>1. instance.at = "reading" /\ next[t].dts \in Int /\ segment.start \in Int
        BY <1>0, <2>1 DEF Rec!Unit, RecorderInv, RecorderTypes, SegmentTypes
      <4>2. t \notin silent => segment.start <= next[t].dts
        BY <3>1, <4>1 DEF RecordingInv, StepInv
      <4> QED BY <3>1, <4>1, <4>2
    <3>4. dropped' = dropped /\ next' = [next EXCEPT ![t] = sample]
      BY <3>1, <3>2, <3>3
    <3> QED BY <2>1, <2>3, <3>1, <3>4, SamplesKept
  <2> QED BY <2>2, <2>4, <2>5, <2>6
<1>2. CASE Rec!OnDataMPEGTS(t)
  <2>1. PICK step \in 1 .. MaxStep, sync \in BOOLEAN :
            /\ format = "mpegts" /\ Rec!Unit(t, step) /\ Rec!InStep(t, step)
            /\ Rec!WriteTS(t, [dts |-> Rec!Dts(t, clock[t] + step), sync |-> sync])
    BY <1>2 DEF Rec!OnDataMPEGTS
  <2> DEFINE sample == [dts |-> Rec!Dts(t, clock[t] + step), sync |-> sync]
  <2>2. sample \in [dts : Int, sync : BOOLEAN] /\ sample.dts = clock'[t] /\ clock[t] < sample.dts
    BY <1>0, <2>1, SampleIs
  <2>3. Rec!WriteTS(t, sample)
    BY <2>1
  <2> HIDE DEF sample
  <2> QED BY <2>1, <2>2, <2>3, WrittenTSStep
<1>3. CASE Rec!OnDataSkipped(t)
  <2>1. PICK step \in 1 .. MaxStep : Rec!Unit(t, step) /\ Rec!InStep(t, step)
    BY <1>3 DEF Rec!OnDataSkipped
  <2>2. next[t] = Rec!Nothing /\ UNCHANGED <<instance, next, hasVideo, segment, disk, number, silent, dropped>>
    BY <1>3 DEF Rec!OnDataSkipped, Rec!lifeVars, Rec!formatVars
  <2> QED BY <1>0, <2>1, <2>2, SamplesKept
<1>4. CASE Rec!OnDataError(t)
  <2>1. PICK step \in 1 .. MaxStep : Rec!Unit(t, step) /\ Rec!InStep(t, step)
    BY <1>4 DEF Rec!OnDataError
  <2>2. instance' = [instance EXCEPT !.at = "failed"] /\ UNCHANGED <<next, hasVideo, segment, disk, number, silent, dropped>>
    BY <1>4 DEF Rec!OnDataError, Rec!formatVars
  <2>3. instance'.at = "failed"
    BY <1>0, <2>2
  <2> QED BY <1>0, <2>1, <2>2, <2>3, SamplesKept
<1> QED BY <1>1, <1>2, <1>3, <1>4

LEMMA RecordingStep ==
    ASSUME RecordingInv, DoubledTracks = {}, Rec!Next
    PROVE  RecordingInv'
<1>1. RecorderInv'
  BY RecorderStep DEF RecordingInv
<1>2. StepInv' /\ HeldInv' /\ OrderInv'
  BY DataStep, EndedStep, RestartedStep, ControlStep DEF Rec!Next
<1> QED BY <1>1, <1>2 DEF RecordingInv

-----------------------------------------------------------------------------
(* What a list of segments makes of a recording: segments of a stream      *)
(* follow each other without a gap and overlap within the tolerance, a     *)
(* later stream begins when the earlier one is over.                       *)
Recording(S) ==
    /\ \A s \in S : s.start \in 0 .. MaxTime /\ s.stream \in 0 .. MaxInstances /\ s.number \in Nat /\ s.duration \in Nat
    /\ \A s, q \in S : s.start = q.start => s = q
    /\ \A s, q \in S : s.start < q.start =>
           \/ s.stream = q.stream /\ s.number < q.number
           \/ s.stream < q.stream /\ Rec!End(s) < q.start
    /\ \A s \in S : s.number > 0 =>
           \E p \in S : /\ p.stream = s.stream /\ p.number + 1 = s.number /\ p.start < s.start
                        /\ s.start <= Rec!End(p) /\ Rec!End(p) <= s.start + Tolerance

(* Segments between two that are found are found.                          *)
PieceOf(S, X) == X \subseteq S /\ \A x, y \in X, s \in S : x.start <= s.start /\ s.start <= y.start => s \in X
IsFirst(X, s) == s \in X /\ \A q \in X : q.stream = s.stream => s.start <= q.start
IsLast(X, s) == s \in X /\ \A q \in X : q.stream = s.stream => q.start <= s.start

LEMMA BoundsAre == MaxTime \in Nat /\ Tolerance \in Nat /\ MaxInstances \in Nat
  BY MediaAssumption DEF Rec!TimesAssumption

LEMMA EarliestIsThere ==
    ASSUME NEW S, Recording(S), NEW X \in SUBSET S, X # {}
    PROVE  \E m \in X : \A x \in X : m.start <= x.start
<1> DEFINE T == {x.start : x \in X}
<1>1. T \in SUBSET Nat /\ T # {}
  BY BoundsAre DEF Recording
<1>2. PICK m \in T : \A x \in T : m <= x
  <2> HIDE DEF T
  <2> QED BY <1>1, SmallestIsThere
<1> QED BY <1>2

LEMMA LatestIsThere ==
    ASSUME NEW S, Recording(S), NEW X \in SUBSET S, X # {}
    PROVE  \E m \in X : \A x \in X : x.start <= m.start
<1> DEFINE T == {x.start : x \in X}
<1>1. T \in SUBSET (0 .. MaxTime) /\ T # {}
  BY DEF Recording
<1>2. PICK m \in T : \A x \in T : x <= m
  <2> HIDE DEF T
  <2> QED BY <1>1, BoundsAre, GreatestIsThere
<1> QED BY <1>2

LEMMA FoundIsPiece ==
    ASSUME NEW S, Recording(S), NEW start \in Nat, NEW end \in Nat
    PROVE  /\ PieceOf(S, Rec!Before(S, end)) /\ PieceOf(S, Rec!FindSegments(S, start, end))
<1>1. \A s \in S : s.start \in Nat
  BY BoundsAre DEF Recording
<1>2. PieceOf(S, Rec!Before(S, end))
  BY <1>1 DEF PieceOf, Rec!Before
<1>3. PieceOf(S, Rec!FindSegments(S, start, end))
  BY <1>1 DEF PieceOf, Rec!FindSegments, Rec!Before
<1> QED BY <1>2, <1>3

(* A segment begins an entry if it is the first of its stream.             *)
LEMMA FirstBegins ==
    ASSUME NEW S, Recording(S), NEW X, PieceOf(S, X), NEW s \in X
    PROVE  ~Rec!Concatenates(X, s) <=> IsFirst(X, s)
<1>1. \A x \in S : x.start \in Nat /\ x.stream \in Nat /\ x.number \in Nat /\ x.duration \in Nat
  BY BoundsAre DEF Recording
<1>2. X \subseteq S /\ s \in S
  BY DEF PieceOf
<1>3. ASSUME Rec!Concatenates(X, s) PROVE ~IsFirst(X, s)
  <2>1. PICK prev \in X : Rec!IsPrevious(X, prev, s) /\ Rec!CanBeConcatenated(prev, Rec!End(prev), s)
    BY <1>3 DEF Rec!Concatenates
  <2>2. prev.stream = s.stream /\ prev.start < s.start
    BY <2>1 DEF Rec!IsPrevious, Rec!CanBeConcatenated, Rec!AreConsecutive
  <2> QED BY <1>1, <1>2, <2>2 DEF IsFirst
<1>4. ASSUME ~IsFirst(X, s) PROVE Rec!Concatenates(X, s)
  <2>1. PICK q \in X : q.stream = s.stream /\ q.start < s.start
    BY <1>1, <1>2, <1>4 DEF IsFirst
  <2>2. q \in S /\ q.number < s.number
    BY <1>1, <1>2, <2>1 DEF Recording
  <2>3. s.number > 0
    BY <1>1, <1>2, <2>2
  <2>4. PICK p \in S : /\ p.stream = s.stream /\ p.number + 1 = s.number /\ p.start < s.start
                       /\ s.start <= Rec!End(p) /\ Rec!End(p) <= s.start + Tolerance
    BY <1>2, <2>3 DEF Recording
  <2>5. q.start <= p.start
    <3>1. SUFFICES ASSUME p.start < q.start PROVE FALSE
      BY <1>1, <2>2
    <3>2. p.number < q.number
      BY <1>1, <2>1, <2>2, <2>4, <3>1 DEF Recording
    <3> QED BY <1>1, <2>2, <2>4, <3>2
  <2>6. p \in X
    BY <1>1, <1>2, <2>4, <2>5 DEF PieceOf
  <2>7. ASSUME NEW other \in X, other.start < s.start, p.start < other.start PROVE FALSE
    <3>1. other \in S
      BY <1>2
    <3>2. other.stream = s.stream
      <4>1. \/ p.stream = other.stream
            \/ p.stream < other.stream /\ Rec!End(p) < other.start
        BY <2>4, <2>7, <3>1 DEF Recording
      <4>2. \/ other.stream = s.stream
            \/ other.stream < s.stream
        BY <1>2, <2>7, <3>1 DEF Recording
      <4> QED BY <1>1, <1>2, <2>4, <3>1, <4>1, <4>2
    <3>3. p.number < other.number /\ other.number < s.number
      BY <1>1, <1>2, <2>4, <2>7, <3>1, <3>2 DEF Recording
    <3> QED BY <1>1, <1>2, <2>4, <3>1, <3>3
  <2>8. Rec!IsPrevious(X, p, s)
    BY <1>1, <1>2, <2>4, <2>7 DEF Rec!IsPrevious
  <2>9. Rec!CanBeConcatenated(p, Rec!End(p), s)
    BY <1>1, <1>2, <2>4, BoundsAre DEF Rec!CanBeConcatenated, Rec!AreConsecutive, Rec!End
  <2> QED BY <2>6, <2>8, <2>9 DEF Rec!Concatenates
<1> QED BY <1>3, <1>4

(* What is between two segments of a stream is of that stream.             *)
LEMMA Between ==
    ASSUME NEW S, Recording(S), NEW a \in S, NEW b \in S, NEW c \in S,
           a.stream = c.stream, a.start <= b.start, b.start <= c.start
    PROVE  b.stream = a.stream
<1>1. \A x \in S : x.start \in Nat /\ x.stream \in Nat
  BY BoundsAre DEF Recording
<1>2. a.start = b.start \/ b.stream = a.stream \/ a.stream < b.stream
  BY <1>1 DEF Recording
<1>3. b.start = c.start \/ b.stream = c.stream \/ b.stream < c.stream
  BY <1>1 DEF Recording
<1>4. (a.start = b.start => a = b) /\ (b.start = c.start => b = c)
  BY DEF Recording
<1> QED BY <1>1, <1>2, <1>3, <1>4

(* An entry ends with the last segment of its stream.                      *)
LEMMA LastEnds ==
    ASSUME NEW S, Recording(S), NEW X, PieceOf(S, X), NEW first, IsFirst(X, first)
    PROVE  Rec!LastOf(X, first).stream = first.stream /\ IsLast(X, Rec!LastOf(X, first))
<1>1. \A x \in S : x.start \in Nat /\ x.stream \in Nat
  BY BoundsAre DEF Recording
<1>2. X \subseteq S /\ first \in X
  BY DEF PieceOf, IsFirst
<1> DEFINE Stream == {q \in X : q.stream = first.stream}
           Ends(final) ==
               /\ first.start <= final.start
               /\ \A s \in X : first.start < s.start /\ s.start <= final.start => Rec!Concatenates(X, s)
               /\ \A s \in X : Rec!IsPrevious(X, final, s) => ~Rec!Concatenates(X, s)
<1>3. PICK l \in Stream : \A q \in Stream : q.start <= l.start
  BY <1>2, LatestIsThere
<1>4. l \in X /\ l.stream = first.stream /\ first.start <= l.start /\ first \in S /\ l \in S
  BY <1>2, <1>3
<1>5. ASSUME NEW s \in X, first.start < s.start, s.stream = first.stream PROVE Rec!Concatenates(X, s)
  BY <1>1, <1>2, <1>5, FirstBegins DEF IsFirst
<1>6. Ends(l)
  <2>1. ASSUME NEW s \in X, first.start < s.start, s.start <= l.start PROVE Rec!Concatenates(X, s)
    <3>1. s.stream = first.stream
      BY <1>1, <1>2, <1>4, <2>1, Between
    <3> QED BY <1>5, <2>1, <3>1
  <2>2. ASSUME NEW s \in X, Rec!IsPrevious(X, l, s), Rec!Concatenates(X, s) PROVE FALSE
    <3>1. PICK prev \in X : Rec!IsPrevious(X, prev, s) /\ Rec!CanBeConcatenated(prev, Rec!End(prev), s)
      BY <2>2 DEF Rec!Concatenates
    <3>2. /\ prev.stream = s.stream /\ prev.start < s.start /\ l.start < s.start
          /\ prev.start <= l.start /\ l.start <= prev.start
      BY <1>4, <2>2, <3>1 DEF Rec!IsPrevious, Rec!CanBeConcatenated, Rec!AreConsecutive
    <3>3. prev = l
      BY <1>1, <1>2, <1>4, <3>2 DEF Recording
    <3> QED BY <1>1, <1>2, <1>3, <1>4, <3>2, <3>3
  <2> QED BY <1>4, <2>1, <2>2
<1> DEFINE final == Rec!LastOf(X, first)
<1>7. final \in X /\ Ends(final)
  BY <1>4, <1>6 DEF Rec!LastOf
<1> HIDE DEF final
<1>8. final \in S /\ first \in S
  BY <1>2, <1>7
<1>9. final.stream = first.stream
  <2>1. SUFFICES ASSUME final.stream # first.stream PROVE FALSE
    OBVIOUS
  <2> DEFINE Later == {q \in X : q.stream = final.stream}
  <2>2. PICK m \in Later : \A q \in Later : m.start <= q.start
    BY <1>2, <1>7, EarliestIsThere
  <2>3. m \in X /\ m.stream = final.stream /\ m.start <= final.start /\ m \in S /\ IsFirst(X, m)
    BY <1>2, <1>7, <2>2 DEF IsFirst
  <2>4. first.start < m.start
    <3>1. SUFFICES ASSUME m.start <= first.start PROVE FALSE
      BY <1>1, <1>8, <2>3
    <3>2. first.start <= final.start
      BY <1>7
    <3>3. first.stream = m.stream
      BY <1>8, <2>3, <3>1, <3>2, Between
    <3> QED BY <2>1, <2>3, <3>3
  <2>5. Rec!Concatenates(X, m)
    BY <1>7, <2>3, <2>4
  <2> QED BY <2>3, <2>5, FirstBegins
<1>10. ASSUME NEW q \in X, q.stream = final.stream PROVE q.start <= final.start
  <2>1. SUFFICES ASSUME final.start < q.start PROVE FALSE
    BY <1>1, <1>2, <1>8
  <2> DEFINE After == {s \in X : final.start < s.start}
  <2>2. PICK n \in After : \A s \in After : n.start <= s.start
    BY <1>2, <2>1, EarliestIsThere
  <2>3. n \in X /\ n \in S /\ q \in S /\ final.start < n.start /\ n.start <= q.start
    BY <1>2, <2>1, <2>2
  <2>4. Rec!IsPrevious(X, final, n)
    <3>1. ASSUME NEW other \in X, other.start < n.start PROVE other.start <= final.start
      <4>1. other \in S /\ ~(other \in After)
        BY <1>1, <1>2, <2>2, <2>3, <3>1
      <4> QED BY <1>1, <1>8, <4>1
    <3> QED BY <2>3, <3>1 DEF Rec!IsPrevious
  <2>5. n.stream = final.stream
    BY <1>1, <1>8, <1>10, <2>3, Between
  <2>6. first.start < n.start
    BY <1>1, <1>7, <1>8, <2>3
  <2> QED BY <1>5, <1>7, <1>9, <2>3, <2>4, <2>5, <2>6
<1> QED BY <1>7, <1>9, <1>10 DEF IsLast, final

-----------------------------------------------------------------------------
(* The list.                                                               *)
Entry(X, first) == [start |-> first.start, end |-> Rec!End(Rec!LastOf(X, first))]

LEMMA EntriesAre ==
    ASSUME NEW S, Recording(S), NEW X, PieceOf(S, X)
    PROVE  Rec!ConcatenateSegments(X) = {Entry(X, first) : first \in {s \in X : IsFirst(X, s)}}
<1>1. {s \in X : ~Rec!Concatenates(X, s)} = {s \in X : IsFirst(X, s)}
  BY FirstBegins
<1>2. Rec!ConcatenateSegments(X) = {Entry(X, first) : first \in {s \in X : ~Rec!Concatenates(X, s)}}
  BY Zenon DEF Rec!ConcatenateSegments, Entry
<1> QED BY <1>1, <1>2

(* Every segment belongs to an entry, that of its stream.                  *)
LEMMA BelongsToEntry ==
    ASSUME NEW S, Recording(S), NEW X, PieceOf(S, X), NEW s \in X
    PROVE  \E first \in X : /\ IsFirst(X, first) /\ first.stream = s.stream /\ first.start <= s.start
                            /\ Entry(X, first) \in Rec!ConcatenateSegments(X)
                            /\ s.start <= Rec!LastOf(X, first).start
<1> DEFINE Stream == {q \in X : q.stream = s.stream}
<1>1. X \subseteq S
  BY DEF PieceOf
<1>2. PICK first \in Stream : \A q \in Stream : first.start <= q.start
  BY <1>1, EarliestIsThere
<1>3. first \in X /\ first.stream = s.stream /\ first.start <= s.start /\ IsFirst(X, first)
  BY <1>2 DEF IsFirst
<1>4. Entry(X, first) \in Rec!ConcatenateSegments(X)
  BY <1>3, EntriesAre
<1>5. s.start <= Rec!LastOf(X, first).start
  BY <1>3, LastEnds DEF IsLast
<1> QED BY <1>3, <1>4, <1>5

LEMMA FirstIsOne ==
    ASSUME NEW S, Recording(S), NEW X, PieceOf(S, X), NEW a, IsFirst(X, a), NEW b, IsFirst(X, b), a.stream = b.stream
    PROVE  a = b
<1>1. a \in S /\ b \in S /\ a.start <= b.start /\ b.start <= a.start
  BY DEF PieceOf, IsFirst
<1>2. a.start \in Nat /\ b.start \in Nat
  BY <1>1, BoundsAre DEF Recording
<1> QED BY <1>1, <1>2 DEF Recording

LEMMA OneEntryEach ==
    ASSUME NEW S, Recording(S), NEW X, PieceOf(S, X)
    PROVE  Cardinality(Rec!ConcatenateSegments(X)) = Cardinality({s.stream : s \in X})
<1> DEFINE Streams == {s.stream : s \in X}
           Entries == Rec!ConcatenateSegments(X)
           FirstOf(k) == CHOOSE first \in X : IsFirst(X, first) /\ first.stream = k
           F == [k \in Streams |-> Entry(X, FirstOf(k))]
<1>1. X \subseteq S /\ \A s \in S : s.stream \in 0 .. MaxInstances /\ s.start \in Nat
  BY BoundsAre DEF PieceOf, Recording
<1>2. ASSUME NEW k \in Streams PROVE FirstOf(k) \in X /\ IsFirst(X, FirstOf(k)) /\ FirstOf(k).stream = k
  <2>1. PICK s \in X : k = s.stream
    OBVIOUS
  <2>2. \E first \in X : IsFirst(X, first) /\ first.stream = k
    BY <2>1, BelongsToEntry
  <2> QED BY <2>2
<1> HIDE DEF FirstOf
<1>3. ASSUME NEW k \in Streams PROVE Entry(X, FirstOf(k)) \in Entries
  BY <1>2, <1>3, EntriesAre
<1>4. ASSUME NEW e \in Entries PROVE \E k \in Streams : Entry(X, FirstOf(k)) = e
  <2>1. PICK first \in X : IsFirst(X, first) /\ e = Entry(X, first)
    BY <1>4, EntriesAre
  <2>2. first.stream \in Streams
    OBVIOUS
  <2>3. FirstOf(first.stream) = first
    BY <1>2, <2>1, <2>2, FirstIsOne
  <2> QED BY <2>1, <2>2, <2>3
<1>5. ASSUME NEW j \in Streams, NEW k \in Streams, Entry(X, FirstOf(j)) = Entry(X, FirstOf(k)) PROVE j = k
  <2>1. FirstOf(j).start = FirstOf(k).start
    BY <1>5 DEF Entry
  <2>2. FirstOf(j) \in S /\ FirstOf(k) \in S /\ FirstOf(j).stream = j /\ FirstOf(k).stream = k
    BY <1>1, <1>2
  <2> QED BY <2>1, <2>2 DEF Recording
<1>6. IsFiniteSet(Streams)
  <2>1. Streams \in SUBSET (0 .. MaxInstances)
    BY <1>1
  <2>2. IsFiniteSet(0 .. MaxInstances)
    BY BoundsAre, FS_Interval
  <2> QED BY <2>1, <2>2, FS_Subset
<1> HIDE DEF Streams, Entries
<1>7. F \in Surjection(Streams, Entries)
  <2>1. F \in [Streams -> Entries]
    BY <1>3
  <2>2. \A e \in Entries : \E k \in Streams : F[k] = e
    BY <1>4
  <2> HIDE DEF F
  <2> QED BY <2>1, <2>2, Fun_IsSurj
<1>8. F \in Injection(Streams, Entries)
  <2>1. F \in [Streams -> Entries]
    BY <1>3
  <2>2. \A j, k \in Streams : F[j] = F[k] => j = k
    BY <1>5
  <2> HIDE DEF F
  <2> QED BY <2>1, <2>2, Fun_IsInj
<1> HIDE DEF F
<1>9. Cardinality(Entries) = Cardinality(Streams)
  BY <1>6, <1>7, <1>8, FS_Surjection
<1> QED BY <1>9 DEF Entries, Streams

(* The same, as the entries are counted in the recorder.                   *)
LEMMA CountedAlike ==
    ASSUME NEW A, NEW B, Cardinality(A) = Cardinality(B)
    PROVE  Rec!Cardinality(A) = Rec!Cardinality(B)
BY DEF Rec!Cardinality, Cardinality

-----------------------------------------------------------------------------
(* The list of files of which all that are found can be parsed.            *)
Listed(S, start, end) == {e \in Rec!ConcatenateSegments(Rec!FindSegments(S, start, end)) : e.end >= start}
IsLastEntry(entries, e) == \A other \in entries : other.start <= e.start
Shown(entries, e, start, end) ==
    [start |-> IF e.start < start THEN start ELSE e.start,
     end |-> IF IsLastEntry(entries, e) /\ e.end > end THEN end ELSE e.end]

LEMMA ListIs ==
    ASSUME NEW S, NEW F, NEW start, NEW end,
           Rec!ParseSegments(Rec!FindSegments(F, start, end)) = Rec!FindSegments(S, start, end)
    PROVE  Rec!OnList(F, start, end) = {Shown(Listed(S, start, end), e, start, end) : e \in Listed(S, start, end)}
BY Zenon DEF Rec!OnList, Shown, Listed, IsLastEntry

(* Every instant of a recording is in an entry of the list.                *)
LEMMA EverythingListed ==
    ASSUME NEW S, Recording(S), NEW F, NEW start \in Nat, NEW end \in Nat,
           Rec!ParseSegments(Rec!FindSegments(F, start, end)) = Rec!FindSegments(S, start, end), NEW time \in Nat, start <= time, time < end,
           NEW s \in S, s.start <= time, time < Rec!End(s),
           \A final \in S : final.stream = s.stream /\ final.number > s.number => time < Rec!End(final)
    PROVE  \E e \in Rec!OnList(F, start, end) : e.start <= time /\ time < e.end
<1> DEFINE X == Rec!FindSegments(S, start, end)
           Until == {q \in S : q.start <= start}
<1>1. \A x \in S : x.start \in Nat /\ x.stream \in Nat /\ x.number \in Nat /\ x.duration \in Nat
  BY BoundsAre DEF Recording
<1>2. PieceOf(S, X)
  BY FoundIsPiece
<1>3. \A q \in S : q \in X <=> q.start <= end /\ \A later \in S : later.start <= end /\ q.start < later.start => start < later.start
  BY DEF Rec!FindSegments, Rec!Before
<1> HIDE DEF X
<1>4. PICK l \in X : /\ l \in S /\ l.stream = s.stream /\ s.number <= l.number /\ l.start <= time /\ time < Rec!End(l)
  <2>1. CASE s \in X
    BY <1>1, <2>1
  <2>2. CASE ~(s \in X)
    <3>1. PICK later \in S : s.start < later.start /\ later.start <= start
      BY <1>1, <1>3, <2>2
    <3>2. PICK m \in Until : \A q \in Until : q.start <= m.start
      <4>1. Until \in SUBSET S /\ Until # {}
        BY <3>1
      <4> HIDE DEF Until
      <4> QED BY <4>1, LatestIsThere
    <3>3. m \in S /\ m.start <= start /\ later.start <= m.start
      BY <3>1, <3>2
    <3>4. m \in X
      <4>1. ASSUME NEW q \in S, m.start < q.start PROVE start < q.start
        <5>1. ~(q \in Until)
          BY <1>1, <3>2, <3>3, <4>1
        <5> QED BY <1>1, <5>1
      <4>2. m.start <= end
        BY <1>1, <3>3
      <4> QED BY <1>3, <3>3, <4>1, <4>2
    <3>5. s.start < m.start /\ m.start <= time
      BY <1>1, <3>1, <3>3
    <3>6. m.stream = s.stream /\ s.number < m.number
      <4>1. m.start < Rec!End(s)
        BY <1>1, <3>3, <3>5 DEF Rec!End
      <4>2. \/ s.stream = m.stream /\ s.number < m.number
            \/ s.stream < m.stream /\ Rec!End(s) < m.start
        BY <3>3, <3>5 DEF Recording
      <4> QED BY <1>1, <3>3, <4>1, <4>2 DEF Rec!End
    <3> QED BY <1>1, <3>3, <3>4, <3>5, <3>6
  <2> QED BY <2>1, <2>2
<1>5. PICK first \in X : /\ IsFirst(X, first) /\ first.stream = l.stream /\ first.start <= l.start
                         /\ Entry(X, first) \in Rec!ConcatenateSegments(X)
                         /\ l.start <= Rec!LastOf(X, first).start
  BY <1>2, BelongsToEntry
<1> DEFINE final == Rec!LastOf(X, first)
           e == Entry(X, first)
<1>6. final \in X /\ final.stream = first.stream /\ final \in S /\ first \in S
  BY <1>2, <1>5, LastEnds DEF IsLast, PieceOf
<1>7. time < Rec!End(final)
  <2>1. CASE final.start = l.start
    BY <1>4, <1>6, <2>1 DEF Recording
  <2>2. CASE l.start < final.start
    <3>1. l.number < final.number
      BY <1>1, <1>4, <1>5, <1>6, <2>2 DEF Recording
    <3>2. final.number > s.number
      BY <1>1, <1>4, <1>6, <3>1
    <3> QED BY <1>4, <1>5, <1>6, <3>2
  <2>3. l.start <= final.start
    BY <1>5
  <2> QED BY <1>1, <1>4, <1>6, <2>1, <2>2, <2>3
<1>8. e.start = first.start /\ e.end = Rec!End(final) /\ e.start <= time /\ time < e.end
  BY <1>1, <1>4, <1>5, <1>6, <1>7 DEF Entry
<1>9. e.start \in Nat /\ e.end \in Nat
  BY <1>1, <1>6, <1>8 DEF Rec!End
<1> HIDE DEF e, final
<1>10. e \in Listed(S, start, end)
  BY <1>5, <1>8, <1>9 DEF Listed, X, e
<1>11. Shown(Listed(S, start, end), e, start, end) \in Rec!OnList(F, start, end)
  BY <1>10, ListIs
<1>12. /\ Shown(Listed(S, start, end), e, start, end).start <= time
       /\ time < Shown(Listed(S, start, end), e, start, end).end
  BY <1>8, <1>9 DEF Shown
<1> QED BY <1>11, <1>12

(* What is found of an entry begins and ends with its segments.            *)
LEMMA EntryIsFound ==
    ASSUME NEW S, Recording(S), NEW F, NEW start \in Nat, NEW end \in Nat, start < end,
           Rec!ParseSegments(Rec!FindSegments(F, start, end)) = Rec!FindSegments(S, start, end),
           NEW e \in Rec!OnList(F, start, end)
    PROVE  /\ e.start \in Nat /\ e.end \in Nat
           /\ Rec!FindSegments(S, e.start, e.end) \subseteq Rec!FindSegments(S, start, end)
           /\ \E first, final \in Rec!FindSegments(S, e.start, e.end) :
                  /\ \A q \in Rec!FindSegments(S, e.start, e.end) :
                         first.start <= q.start /\ (q.stream = first.stream => q.start <= final.start)
                  /\ final.stream = first.stream /\ final.start <= e.end /\ e.end <= Rec!End(final)
<1> DEFINE X == Rec!FindSegments(S, start, end)
           L == Listed(S, start, end)
<1>1. \A x \in S : x.start \in Nat /\ x.stream \in Nat /\ x.number \in Nat /\ x.duration \in Nat
  BY BoundsAre DEF Recording
<1>2. PieceOf(S, X)
  BY FoundIsPiece
<1>3. \A q \in S : q \in X <=> q.start <= end /\ \A later \in S : later.start <= end /\ q.start < later.start => start < later.start
  BY DEF Rec!FindSegments, Rec!Before
<1>4. PICK whole \in L : e = Shown(L, whole, start, end)
  BY ListIs
<1>5. whole \in Rec!ConcatenateSegments(X) /\ start <= whole.end
  BY <1>4 DEF Listed
<1> HIDE DEF X
<1>6. PICK first \in X : IsFirst(X, first) /\ whole = Entry(X, first)
  BY <1>2, <1>5, EntriesAre
<1> DEFINE final == Rec!LastOf(X, first)
<1>7. /\ final \in X /\ final.stream = first.stream /\ final \in S /\ first \in S
      /\ \A q \in X : q.stream = final.stream => q.start <= final.start
      /\ first.start <= final.start /\ first.start <= end /\ final.start <= end
  BY <1>2, <1>3, <1>6, LastEnds DEF IsLast, PieceOf
<1>8. whole.start = first.start /\ whole.end = Rec!End(final)
  BY <1>6 DEF Entry
<1> HIDE DEF final
<1>9. /\ whole.start \in Nat /\ whole.end \in Nat /\ final.start <= whole.end /\ first.start <= whole.end
      /\ whole.end = final.start + final.duration
  BY <1>1, <1>7, <1>8 DEF Rec!End
<1>10. /\ e.start = IF whole.start < start THEN start ELSE whole.start
       /\ e.end = IF IsLastEntry(L, whole) /\ whole.end > end THEN end ELSE whole.end
  BY <1>4 DEF Shown
<1> HIDE DEF L
(* Only the last entry may go on after the end.                            *)
<1>11. ~IsLastEntry(L, whole) => whole.end <= end
  <2>1. SUFFICES ASSUME ~IsLastEntry(L, whole) PROVE whole.end <= end
    OBVIOUS
  <2>2. PICK other \in L : ~(other.start <= whole.start)
    BY <2>1 DEF IsLastEntry
  <2>3. PICK q \in X : IsFirst(X, q) /\ other = Entry(X, q)
    <3>1. other \in Rec!ConcatenateSegments(X)
      BY <2>2 DEF L, X, Listed
    <3> QED BY <1>2, <3>1, EntriesAre
  <2>4. q \in S /\ q.start <= end /\ other.start = q.start /\ first.start < q.start
    BY <1>1, <1>2, <1>3, <1>7, <1>8, <2>2, <2>3 DEF Entry, PieceOf
  <2>5. first.stream # q.stream
    <3>1. SUFFICES ASSUME first.stream = q.stream PROVE FALSE
      OBVIOUS
    <3>2. first = q
      BY <1>2, <1>6, <2>3, <3>1, FirstIsOne
    <3> QED BY <1>1, <1>7, <2>4, <3>2
  <2>6. first.stream < q.stream
    BY <1>7, <2>4, <2>5 DEF Recording
  <2>7. final.start < q.start
    <3>1. SUFFICES ASSUME q.start <= final.start PROVE FALSE
      BY <1>1, <1>7, <2>4
    <3>2. first.start <= q.start
      BY <1>1, <1>7, <2>4
    <3> QED BY <1>7, <2>4, <2>5, <3>1, <3>2, Between
  <2>8. Rec!End(final) < q.start
    BY <1>1, <1>7, <2>4, <2>6, <2>7 DEF Recording
  <2> QED BY <1>1, <1>8, <1>9, <2>4, <2>8
<1>12. e.start \in Nat /\ e.end \in Nat /\ e.start <= e.end /\ e.end <= end /\ e.end <= whole.end /\ first.start <= e.start
       /\ (e.end = end \/ e.end = whole.end)
  BY <1>1, <1>5, <1>7, <1>8, <1>9, <1>10, <1>11
<1> DEFINE Y == Rec!FindSegments(S, e.start, e.end)
<1>13. PieceOf(S, Y)
  BY <1>12, FoundIsPiece
<1>14. \A q \in S : q \in Y <=> q.start <= e.end /\ \A later \in S : later.start <= e.end /\ q.start < later.start => e.start < later.start
  BY DEF Rec!FindSegments, Rec!Before
(* What is found begins with the segment that the entry begins with.       *)
<1>15. first \in Y
  <2>1. ASSUME NEW later \in S, later.start <= e.end, first.start < later.start, later.start <= e.start PROVE FALSE
    <3>1. e.start = start
      BY <1>1, <1>7, <1>8, <1>10, <2>1
    <3>2. later.start <= end
      BY <1>1, <1>12, <2>1
    <3>3. first \in X
      OBVIOUS
    <3> QED BY <1>1, <1>3, <1>7, <2>1, <3>1, <3>2, <3>3
  <2>2. first.start <= e.end
    BY <1>1, <1>7, <1>12
  <2>3. ASSUME NEW later \in S, later.start <= e.end, first.start < later.start PROVE e.start < later.start
    BY <1>1, <1>12, <2>1, <2>3
  <2> QED BY <1>7, <1>14, <2>2, <2>3
<1>16. ASSUME NEW q \in Y PROVE first.start <= q.start
  <2>1. SUFFICES ASSUME q.start < first.start PROVE FALSE
    BY <1>1, <1>7, <1>13, <1>16 DEF PieceOf
  <2>2. q \in S
    BY <1>13 DEF PieceOf
  <2>3. first.start <= e.end
    BY <1>7, <1>14, <1>15
  <2>4. e.start < first.start
    BY <1>7, <1>14, <1>16, <2>1, <2>2, <2>3
  <2> QED BY <1>1, <1>7, <1>12, <2>4
<1> HIDE DEF Y
(* It ends with the segment that the entry ends with.                      *)
<1>20. final.start <= e.end
  BY <1>1, <1>7, <1>9, <1>12
<1>21. ASSUME NEW q \in Y PROVE q \in X
  <2>1. q \in S /\ q.start <= e.end /\ first.start <= q.start
    BY <1>13, <1>14, <1>16, <1>21 DEF PieceOf
  <2>2. q.start <= end
    BY <1>1, <1>12, <2>1
  <2>3. ASSUME NEW later \in S, later.start <= end, q.start < later.start PROVE start < later.start
    <3>1. first.start < later.start
      BY <1>1, <1>7, <2>1, <2>3
    <3>2. first \in X
      OBVIOUS
    <3> QED BY <1>3, <1>7, <2>3, <3>1, <3>2
  <2> QED BY <1>3, <2>1, <2>2, <2>3
<1>22. final \in Y
  <2>1. ASSUME NEW later \in S, later.start <= e.end, final.start < later.start PROVE e.start < later.start
    <3>1. first.start < later.start
      BY <1>1, <1>7, <2>1
    <3> QED BY <1>7, <1>14, <1>15, <2>1, <3>1
  <2> QED BY <1>7, <1>14, <1>20, <2>1
<1>23. Y \subseteq X
  BY <1>21
<1>24. \A q \in Y : first.start <= q.start /\ (q.stream = first.stream => q.start <= final.start)
  BY <1>7, <1>16, <1>21
<1> QED BY <1>7, <1>8, <1>12, <1>15, <1>20, <1>22, <1>23, <1>24 DEF X, Y

-----------------------------------------------------------------------------
(* What is on the disk: what the recorder leaves is like a recording, both *)
(* for who reads the durations and for who reads the parts.                *)
Over(f) == f.start + Rec!Later(Length(f), f.written)
RecordedFiles(F) ==
    /\ \A f \in F : /\ f.start \in 0 .. MaxTime /\ f.stream \in 0 .. MaxInstances /\ f.number \in Nat
                    /\ f.duration \in Int /\ f.written \in 0 .. MaxTime /\ Sane(f)
    /\ \A f, g \in F : f.start = g.start => f = g
    /\ \A f, g \in F : f.start < g.start =>
           \/ f.stream = g.stream /\ f.number < g.number /\ Whole(f)
           \/ f.stream < g.stream /\ Over(f) < g.start
    /\ \A f \in F : f.number > 0 =>
           \E p \in F : /\ p.stream = f.stream /\ p.number + 1 = f.number /\ p.start < f.start
                        /\ f.start <= Over(p) /\ Over(p) <= f.start + Tolerance

IsView(F, v) ==
    \A f \in F : /\ v[f].start = f.start /\ v[f].stream = f.stream /\ v[f].number = f.number /\ v[f].duration \in Nat
                 /\ Rec!End(v[f]) <= Over(f) /\ (Whole(f) => Rec!End(v[f]) = Over(f))
View(F, v) == {v[f] : f \in F}
Seen(f) == [start |-> f.start, stream |-> f.stream, number |-> f.number, duration |-> Length(f)]
Lengths(F) == [f \in F |-> Seen(f)]
Sent(F) == [f \in F |-> Rec!MuxParts(f)]

LEMMA ViewIsRecording ==
    ASSUME NEW F, RecordedFiles(F), NEW v, IsView(F, v)
    PROVE  Recording(View(F, v))
<1>1. \A f \in F : /\ f.start \in 0 .. MaxTime /\ f.start \in Nat /\ f.stream \in 0 .. MaxInstances /\ f.number \in Nat
                   /\ f.duration \in Int /\ f.written \in Int /\ Over(f) \in Int
                   /\ v[f].start = f.start /\ v[f].stream = f.stream /\ v[f].number = f.number /\ v[f].duration \in Nat
                   /\ Rec!End(v[f]) <= Over(f) /\ (Whole(f) => Rec!End(v[f]) = Over(f)) /\ Rec!End(v[f]) \in Int
  <2>1. ASSUME NEW f \in F
        PROVE  /\ f.start \in 0 .. MaxTime /\ f.start \in Nat /\ f.stream \in 0 .. MaxInstances /\ f.number \in Nat
               /\ f.duration \in Int /\ f.written \in Int
               /\ v[f].start = f.start /\ v[f].stream = f.stream /\ v[f].number = f.number /\ v[f].duration \in Nat
               /\ Rec!End(v[f]) <= Over(f) /\ (Whole(f) => Rec!End(v[f]) = Over(f))
    BY BoundsAre DEF RecordedFiles, IsView
  <2>2. ASSUME NEW f \in F PROVE Over(f) \in Int /\ Rec!End(v[f]) \in Int
    <3>1. Length(f) \in Int
      BY <2>1 DEF Length
    <3> QED BY <2>1, <3>1 DEF Over, Rec!Later, Rec!End
  <2> QED BY <2>1, <2>2
<1>2. \A s \in View(F, v) : \E f \in F : s = v[f]
  BY DEF View
<1>3. \A f \in F : v[f] \in View(F, v)
  BY DEF View
<1>4. \A s \in View(F, v) :
          s.start \in 0 .. MaxTime /\ s.stream \in 0 .. MaxInstances /\ s.number \in Nat /\ s.duration \in Nat
  BY <1>1, <1>2
<1>5. ASSUME NEW s \in View(F, v), NEW q \in View(F, v)
      PROVE  /\ s.start = q.start => s = q
             /\ s.start < q.start => \/ s.stream = q.stream /\ s.number < q.number
                                     \/ s.stream < q.stream /\ Rec!End(s) < q.start
  <2>1. PICK f \in F, g \in F : s = v[f] /\ q = v[g]
    BY <1>2
  <2>2. /\ f.start = g.start => f = g
        /\ f.start < g.start => \/ f.stream = g.stream /\ f.number < g.number
                                \/ f.stream < g.stream /\ Over(f) < g.start
    BY DEF RecordedFiles
  <2>3. f.start < g.start /\ Over(f) < g.start => Rec!End(s) < g.start
    BY <1>1, <2>1
  <2> QED BY <1>1, <2>1, <2>2, <2>3
<1>6. ASSUME NEW s \in View(F, v), s.number > 0
      PROVE  \E p \in View(F, v) : /\ p.stream = s.stream /\ p.number + 1 = s.number /\ p.start < s.start
                                   /\ s.start <= Rec!End(p) /\ Rec!End(p) <= s.start + Tolerance
  <2>1. PICK f \in F : s = v[f]
    BY <1>2
  <2>2. f.number > 0
    BY <1>1, <1>6, <2>1
  <2>3. PICK p \in F : /\ p.stream = f.stream /\ p.number + 1 = f.number /\ p.start < f.start
                       /\ f.start <= Over(p) /\ Over(p) <= f.start + Tolerance
    BY <2>2 DEF RecordedFiles
  <2>4. Whole(p)
    <3>1. \/ p.stream = f.stream /\ p.number < f.number /\ Whole(p)
          \/ p.stream < f.stream /\ Over(p) < f.start
      BY <2>3 DEF RecordedFiles
    <3>2. ~(p.stream < f.stream)
      BY <1>1, <2>3, BoundsAre
    <3> QED BY <3>1, <3>2
  <2>5. Rec!End(v[p]) = Over(p)
    BY <1>1, <2>4
  <2> QED BY <1>1, <1>3, <2>1, <2>3, <2>5
<1> QED BY <1>4, <1>5, <1>6 DEF Recording

LEMMA ViewFinds ==
    ASSUME NEW F, NEW v, IsView(F, v), NEW start, NEW end
    PROVE  Rec!FindSegments(View(F, v), start, end) = View(Rec!FindSegments(F, start, end), v)
<1>1. \A f \in F : v[f].start = f.start
  BY DEF IsView
<1>2. Rec!Before(View(F, v), end) = View(Rec!Before(F, end), v)
  BY <1>1 DEF Rec!Before, View
<1>3. \A f \in Rec!Before(F, end) : f \in F
  BY DEF Rec!Before
<1> DEFINE B == Rec!Before(F, end)
           Finds(found) == {s \in found : \A later \in found : s.start < later.start => start < later.start}
<1>4. Finds(View(B, v)) = View(Finds(B), v)
  <2> HIDE DEF B
  <2>1. \A f \in B : v[f].start = f.start
    BY <1>1, <1>3 DEF B
  <2>2. ASSUME NEW s \in Finds(View(B, v)) PROVE s \in View(Finds(B), v)
    <3>1. PICK f \in B : s = v[f]
      BY <2>2 DEF View
    <3>2. ASSUME NEW later \in B, f.start < later.start PROVE start < later.start
      <4>1. v[later] \in View(B, v)
        BY DEF View
      <4> QED BY <2>1, <2>2, <3>1, <3>2, <4>1
    <3>3. f \in Finds(B)
      BY <3>2
    <3> HIDE DEF Finds
    <3> QED BY <3>1, <3>3 DEF View
  <2>3. ASSUME NEW s \in View(Finds(B), v) PROVE s \in Finds(View(B, v))
    <3>1. PICK f \in Finds(B) : s = v[f]
      BY <2>3 DEF View
    <3>2. s \in View(B, v)
      BY <3>1 DEF View
    <3>3. ASSUME NEW q \in View(B, v), s.start < q.start PROVE start < q.start
      <4>1. PICK later \in B : q = v[later]
        BY DEF View
      <4> QED BY <2>1, <3>1, <3>3, <4>1
    <3> QED BY <3>2, <3>3
  <2> QED BY <2>2, <2>3
<1> QED BY <1>2, <1>4 DEF Rec!FindSegments

LEMMA LengthsAreView ==
    ASSUME NEW F, RecordedFiles(F)
    PROVE  IsView(F, Lengths(F)) /\ IsView(F, Sent(F))
<1>1. ASSUME NEW f \in F
      PROVE  /\ Length(f) \in Nat /\ f.written \in Nat /\ f.start \in Nat
             /\ f.start + Length(f) <= Over(f) /\ f.start + f.written <= Over(f)
             /\ Whole(f) => Length(f) = f.written /\ f.start + f.written = Over(f)
  <2>1. f.duration \in Int /\ f.written \in 0 .. MaxTime /\ f.written \in Nat /\ f.start \in Nat
    BY BoundsAre DEF RecordedFiles
  <2>2. Length(f) \in Nat
    BY <2>1 DEF Length, Rec!CanBeParsed
  <2>3. Whole(f) => Length(f) = f.written
    BY <2>1 DEF Whole, Length, Rec!CanBeParsed
  <2> QED BY <2>1, <2>2, <2>3 DEF Over, Rec!Later
<1>2. ASSUME NEW f \in F
      PROVE  /\ Lengths(F)[f].start = f.start /\ Lengths(F)[f].stream = f.stream /\ Lengths(F)[f].number = f.number
             /\ Lengths(F)[f].duration = Length(f)
             /\ Sent(F)[f].start = f.start /\ Sent(F)[f].stream = f.stream /\ Sent(F)[f].number = f.number
             /\ Sent(F)[f].duration = f.written
  BY DEF Lengths, Sent, Seen, Rec!MuxParts
<1>3. IsView(F, Lengths(F))
  BY <1>1, <1>2 DEF IsView, Rec!End
<1>4. IsView(F, Sent(F))
  BY <1>1, <1>2 DEF IsView, Rec!End
<1> QED BY <1>3, <1>4

(* If what is found can be parsed it is what is seen.                      *)
LEMMA ParsedIsSeen ==
    ASSUME NEW F, NEW X \in SUBSET F, \A f \in X : Rec!CanBeParsed(f)
    PROVE  Rec!ParseSegments(X) = View(X, Lengths(F))
<1>1. \A f \in X : Rec!ParseSegment(f) = Seen(f) /\ Lengths(F)[f] = Seen(f)
  BY DEF Rec!ParseSegment, Seen, Length, Lengths
<1> QED BY <1>1 DEF Rec!ParseSegments, View

(* What is sent for an entry of the list goes on to its end, or as far as  *)
(* its last file was written.                                              *)
LEMMA EverythingSent ==
    ASSUME NEW F, RecordedFiles(F), NEW start \in Nat, NEW end \in Nat, start < end,
           \A f \in Rec!FindSegments(F, start, end) : Rec!CanBeParsed(f), NEW e \in Rec!OnList(F, start, end),
           NEW sent \in Rec!SeekAndMux(F, e.start, e.end)
    PROVE  e.end <= sent \/ Rec!SentAsFarAsWritten(F, e, sent)
<1> DEFINE S == View(F, Lengths(F))  M == View(F, Sent(F))
           found == Rec!FindSegments(F, e.start, e.end)
           X == Rec!FindSegments(F, start, end)
           Y == Rec!FindSegments(S, e.start, e.end)
           muxed == {Rec!MuxParts(f) : f \in found}
<1>1. Recording(S) /\ Recording(M) /\ IsView(F, Lengths(F)) /\ IsView(F, Sent(F))
  BY LengthsAreView, ViewIsRecording
<1>2. found \subseteq F /\ X \subseteq F
  BY DEF Rec!FindSegments, Rec!Before
<1>3. Rec!ParseSegments(X) = Rec!FindSegments(S, start, end) /\ Rec!FindSegments(S, start, end) = View(X, Lengths(F))
  <2>1. Rec!FindSegments(S, start, end) = View(X, Lengths(F))
    BY <1>1, ViewFinds
  <2>2. Rec!ParseSegments(X) = View(X, Lengths(F))
    <3>1. X \in SUBSET F /\ \A f \in X : Rec!CanBeParsed(f)
      BY <1>2
    <3> HIDE DEF X
    <3> QED BY <3>1, ParsedIsSeen
  <2> QED BY <2>1, <2>2
<1>4. Y = View(found, Lengths(F)) /\ Rec!FindSegments(M, e.start, e.end) = View(found, Sent(F))
  BY <1>1, ViewFinds
<1>5. muxed = View(found, Sent(F))
  BY <1>2 DEF View, Sent
<1>6. \A f \in F : /\ f.start \in Nat /\ f.stream \in Nat /\ f.number \in Nat /\ f.duration \in Int /\ f.written \in Int
                   /\ Sane(f)
                   /\ Lengths(F)[f] = Seen(f) /\ Seen(f).start = f.start /\ Seen(f).stream = f.stream
                   /\ Rec!End(Seen(f)) = f.start + Length(f)
                   /\ Rec!MuxParts(f).start = f.start /\ Rec!MuxParts(f).stream = f.stream
                   /\ Rec!End(Rec!MuxParts(f)) = f.start + f.written
                   /\ Rec!End(Rec!ParseSegment(f)) = f.start + f.duration
  BY BoundsAre DEF RecordedFiles, Lengths, Seen, Rec!MuxParts, Rec!ParseSegment, Rec!End
<1>7. /\ e.start \in Nat /\ e.end \in Nat /\ Y \subseteq Rec!FindSegments(S, start, end)
      /\ \E first, final \in Y :
             /\ \A q \in Y : first.start <= q.start /\ (q.stream = first.stream => q.start <= final.start)
             /\ final.stream = first.stream /\ final.start <= e.end /\ e.end <= Rec!End(final)
  <2> HIDE DEF S
  <2> QED BY <1>1, <1>3, EntryIsFound
(* The files of the entry: its first and its last.                         *)
<1>8. PICK f0 \in found, g \in found :
          /\ \A q \in found : f0.start <= q.start /\ (q.stream = f0.stream => q.start <= g.start)
          /\ g.stream = f0.stream /\ g.start <= e.end /\ e.end <= g.start + Length(g)
  <2>1. PICK first \in Y, final \in Y :
            /\ \A q \in Y : first.start <= q.start /\ (q.stream = first.stream => q.start <= final.start)
            /\ final.stream = first.stream /\ final.start <= e.end /\ e.end <= Rec!End(final)
    BY <1>7
  <2> HIDE DEF Y, found, S
  <2>2. PICK f0 \in found, g \in found : first = Lengths(F)[f0] /\ final = Lengths(F)[g]
    BY <1>4, <2>1 DEF View
  <2>3. \A q \in found : Lengths(F)[q] \in Y
    BY <1>4 DEF View
  <2>4. f0 \in F /\ g \in F /\ \A q \in found : q \in F
    BY <1>2
  <2>5. first = Seen(f0) /\ final = Seen(g) /\ \A q \in found : Seen(q) \in Y
    BY <1>6, <2>2, <2>3, <2>4
  <2>6. \A q \in found : f0.start <= q.start /\ (q.stream = f0.stream => q.start <= g.start)
    BY <1>6, <2>1, <2>4, <2>5
  <2>7. g.stream = f0.stream /\ g.start <= e.end /\ e.end <= g.start + Length(g)
    BY <1>6, <2>1, <2>4, <2>5
  <2> QED BY <2>6, <2>7
<1>9. f0 \in F /\ g \in F
  BY <1>2
<1>10. ASSUME NEW f \in found PROVE Rec!CanBeParsed(f) /\ f.header
  <2>1. Lengths(F)[f] \in View(X, Lengths(F))
    BY <1>3, <1>4, <1>7 DEF View
  <2>2. PICK h \in X : Lengths(F)[f] = Lengths(F)[h]
    BY <2>1 DEF View
  <2>3. f \in F /\ h \in F
    BY <1>2
  <2>4. f.start = h.start
    BY <1>6, <2>2, <2>3
  <2>5. f = h
    BY <2>3, <2>4 DEF RecordedFiles
  <2> QED BY <2>2, <2>5 DEF Rec!CanBeParsed
(* What is muxed begins and ends with them.                                *)
<1> DEFINE first == CHOOSE s \in muxed : \A other \in muxed : s.start <= other.start
           final == Rec!LastOf(muxed, first)
<1>11. /\ Rec!MuxParts(f0) \in muxed /\ Rec!MuxParts(g) \in muxed
       /\ \A s \in muxed : \E f \in found : s = Rec!MuxParts(f)
  OBVIOUS
<1> HIDE DEF found, Y, S, M, X, muxed
<1>12. first = Rec!MuxParts(f0)
  <2>1. \A other \in muxed : Rec!MuxParts(f0).start <= other.start
    BY <1>2, <1>6, <1>8, <1>9, <1>11
  <2>2. first \in muxed /\ \A other \in muxed : first.start <= other.start
    BY <1>11, <2>1
  <2> HIDE DEF first
  <2>3. PICK f \in found : first = Rec!MuxParts(f)
    BY <1>11, <2>2
  <2>4. f \in F /\ f.start <= f0.start /\ f0.start <= f.start
    BY <1>2, <1>6, <1>8, <1>9, <1>11, <2>2, <2>3
  <2>5. f = f0
    BY <1>6, <1>9, <2>4 DEF RecordedFiles
  <2> QED BY <2>3, <2>5
<1> HIDE DEF first
<1>13. final = Rec!MuxParts(g)
  <2>1. PieceOf(M, muxed)
    BY <1>1, <1>4, <1>5, <1>7, FoundIsPiece
  <2>2. IsFirst(muxed, first)
    <3>1. \A q \in muxed : first.start <= q.start
      BY <1>2, <1>6, <1>8, <1>9, <1>11, <1>12
    <3> QED BY <1>11, <1>12, <3>1 DEF IsFirst
  <2>3. final.stream = first.stream /\ IsLast(muxed, final)
    BY <1>1, <2>1, <2>2, LastEnds
  <2> HIDE DEF final
  <2>4. final \in muxed /\ \A q \in muxed : q.stream = final.stream => q.start <= final.start
    BY <2>3 DEF IsLast
  <2>5. PICK f \in found : final = Rec!MuxParts(f)
    BY <1>11, <2>4
  <2>6. f \in F /\ f.stream = f0.stream
    BY <1>2, <1>6, <1>9, <1>12, <2>3, <2>5
  <2>7. f.start <= g.start /\ g.start <= f.start
    BY <1>6, <1>8, <1>9, <1>11, <2>4, <2>5, <2>6
  <2>8. f = g
    BY <1>6, <1>9, <2>6, <2>7 DEF RecordedFiles
  <2> QED BY <2>5, <2>8
<1> HIDE DEF final
<1>14. /\ g.duration \in Int /\ g.written \in Int /\ g.start \in Nat /\ Sane(g) /\ Rec!CanBeParsed(g)
       /\ e.end <= g.start + g.duration
  BY <1>6, <1>8, <1>9, <1>10 DEF Length
<1>15. \/ sent = Rec!End(final)
       \/ sent = Rec!Failed /\ \E torn \in found : torn.start <= final.start /\ torn.lost = "part"
  <2> DEFINE opened == {f \in found : \A other \in found : other.start < f.start => other.start <= final.start}
             torn == {f \in found : f.start <= final.start /\ f.lost = "part"}
  <2>1. sent \in IF \E f \in opened : ~f.header THEN {Rec!Failed} ELSE {Rec!End(final)} \cup {Rec!Failed : f \in torn}
    BY Zenon DEF Rec!SeekAndMux, found, muxed, first, final
  <2>2. \A f \in opened : f.header
    BY <1>10
  <2> HIDE DEF opened
  <2>3. sent \in {Rec!End(final)} \cup {Rec!Failed : f \in torn}
    BY <2>1, <2>2
  <2> QED BY <2>3
<1>16. CASE sent = Rec!End(final)
  <2>1. sent = g.start + g.written
    BY <1>6, <1>9, <1>13, <1>16
  <2>2. CASE g.lost = "nothing"
    <3>1. g.duration <= g.written
      BY <1>14, <2>2 DEF Sane
    <3>2. e.end <= sent
      BY <1>7, <1>14, <2>1, <3>1
    <3> QED BY <3>2
  <2>3. CASE g.lost # "nothing"
    <3>1. e.end <= Rec!End(Rec!ParseSegment(g)) /\ sent = Rec!End(Rec!MuxParts(g))
      BY <1>6, <1>9, <1>13, <1>14, <1>16
    <3>2. Rec!SentAsFarAsWritten(F, e, sent)
      BY <1>8, <1>9, <2>3, <3>1 DEF Rec!SentAsFarAsWritten
    <3> QED BY <3>2
  <2> QED BY <2>2, <2>3
<1>17. CASE sent = Rec!Failed /\ \E torn \in found : torn.start <= final.start /\ torn.lost = "part"
  <2>1. PICK torn \in found : torn.start <= final.start /\ torn.lost = "part"
    BY <1>17
  <2>2. torn \in F /\ torn.start <= g.start /\ f0.start <= torn.start
    BY <1>2, <1>6, <1>8, <1>9, <1>13, <2>1
  <2>3. torn = g
    <3>1. SUFFICES ASSUME torn.start < g.start PROVE FALSE
      BY <1>6, <1>9, <2>2 DEF RecordedFiles
    <3>2. ~Whole(torn)
      BY <2>1 DEF Whole
    <3>3. torn.stream < g.stream
      BY <1>9, <2>2, <3>1, <3>2 DEF RecordedFiles
    <3>4. f0.start = torn.start \/ f0.start < torn.start
      BY <1>6, <1>9, <2>2
    <3>5. f0.stream <= torn.stream
      <4>1. CASE f0.start = torn.start
        <5>1. f0 = torn
          BY <1>9, <2>2, <4>1 DEF RecordedFiles
        <5> QED BY <1>6, <1>9, <5>1
      <4>2. CASE f0.start < torn.start
        <5>1. f0.stream = torn.stream \/ f0.stream < torn.stream
          BY <1>9, <2>2, <4>2 DEF RecordedFiles
        <5> QED BY <1>6, <1>9, <2>2, <5>1
      <4> QED BY <3>4, <4>1, <4>2
    <3> QED BY <1>6, <1>8, <1>9, <2>2, <3>3, <3>5
  <2>4. Rec!SentAsFarAsWritten(F, e, sent)
    <3>1. g.lost = "part" /\ e.end <= Rec!End(Rec!ParseSegment(g)) /\ sent = Rec!Failed
      BY <1>6, <1>9, <1>14, <1>17, <2>1, <2>3
    <3> QED BY <1>8, <1>9, <3>1 DEF Rec!SentAsFarAsWritten
  <2> QED BY <2>4
<1> QED BY <1>15, <1>16, <1>17

-----------------------------------------------------------------------------
LEMMA FilesAre ==
    ASSUME RecordingInv, DoubledTracks = {}
    PROVE  \A s \in Rec!Times : disk[s] \in FileTypes /\ FileBounds(disk[s]) /\ disk[s].creates <= 3
<1>1. disk \in Disks /\ (segment # Rec!NoSegment => Held(segment, disk, 1)) /\ OthersFine(segment, disk)
  BY DEF RecordingInv, RecorderInv, RecorderTypes, HeldInv
<1>2. ASSUME NEW s \in Rec!Times PROVE disk[s] \in FileTypes /\ FileBounds(disk[s]) /\ disk[s].creates <= 3
  <2>1. disk[s] \in FileTypes
    BY <1>1 DEF Disks
  <2>2. CASE s # segment.start
    BY <1>1, <2>1, <2>2 DEF OthersFine, Others
  <2>3. CASE s = segment.start
    <3>1. segment # Rec!NoSegment
      BY <2>3, TimesAre DEF Rec!NoSegment
    <3>2. FileBounds(disk[s]) /\ disk[s].creates <= 1 + 1
      BY <1>1, <2>3, <3>1 DEF Held, Kept, FileKept
    <3> QED BY <2>1, <3>2 DEF FileTypes
  <2> QED BY <2>2, <2>3
<1> QED BY <1>2

LEMMA RecorderTypesAre ==
    ASSUME RecordingInv, DoubledTracks = {}
    PROVE  Rec!RecorderTypeOK
<1>1. RecorderTypes /\ SampleInv /\ StepInv /\ HeldInv
  BY DEF RecordingInv, RecorderInv
<1>2. Rec!Times = 0 .. MaxTime /\ MaxTime \in Nat
  BY TimesAre
<1>3. /\ recorder \in {"running", "pausing", "ended"} /\ closing \in {"no", "waiting", "returned"}
      /\ format \in {"fmp4", "mpegts"} /\ clock \in [Tracks -> 0 .. MaxTime]
      /\ hasVideo \in BOOLEAN /\ silent \subseteq Tracks /\ dropped \subseteq Tracks
      /\ instance \in [id : 1 .. MaxInstances, at : {"reading", "skipped", "failed", "closing", "done"}]
  BY <1>1 DEF RecorderTypes, StepInv
<1>4. next \in [Tracks -> [dts : Rec!Times \cup {-1}, sync : BOOLEAN]]
  <2>1. ASSUME NEW t \in Tracks PROVE next[t] \in [dts : Rec!Times \cup {-1}, sync : BOOLEAN]
    <3>1. next[t] \in [dts : Int, sync : BOOLEAN] /\ clock[t] \in 0 .. MaxTime
      BY <1>1, <1>3 DEF RecorderTypes
    <3>2. next[t].dts \in Rec!Times \cup {-1}
      BY <1>1, <1>2, <3>1 DEF SampleInv, Rec!Nothing
    <3> QED BY <3>1, <3>2
  <2> QED BY <1>1, <2>1 DEF RecorderTypes
<1>5. /\ segment \in [start : Rec!Times \cup {-1}, end : Rec!Times \cup {-1}, number : 0 .. MaxTime \cup {-1},
                      file : {"none", "open", "closed"},
                      part : [start : Rec!Times \cup {-1}, end : Rec!Times \cup {-1}],
                      last : Rec!Times \cup {-1}, lost : Losses]
      /\ number \in 0 .. MaxTime + 1
      /\ segment # Rec!NoSegment /\ format = "fmp4" => segment.end >= segment.start /\ segment.number < number
  <2>1. CASE segment = Rec!NoSegment
    <3>1. number = 0
      BY <1>1, <2>1 DEF HeldInv
    <3> QED BY <1>2, <2>1, <3>1 DEF Rec!NoSegment, Rec!NoPart, Losses
  <2>2. CASE segment # Rec!NoSegment
    <3>1. segment \in SegmentTypes /\ SegmentBounds(segment)
      BY <1>1, <2>2 DEF HeldInv, Held, Kept
    <3>2. number = segment.number + 1 \/ (number = 0 /\ format = "mpegts")
      BY <1>1, <1>3, <2>2 DEF HeldInv
    <3>3. segment.number \in 0 .. MaxTime
      BY <1>2, <3>1 DEF SegmentBounds
    <3> DEFINE T == Rec!Times \cup {-1}
    <3>4. segment.part \in [start : T, end : T]
      BY <1>2, <3>1 DEF SegmentBounds, SegmentTypes
    <3>5. segment.start \in T /\ segment.end \in T /\ segment.last \in T /\ segment.number \in 0 .. MaxTime \cup {-1}
      BY <1>2, <3>1, <3>3 DEF SegmentBounds
    <3>6. segment.end >= segment.start \/ format = "mpegts"
      BY <1>2, <1>3, <3>1 DEF SegmentBounds
    <3>7. number \in 0 .. MaxTime + 1 /\ (format = "fmp4" => segment.number < number)
      BY <1>2, <3>2, <3>3
    <3> HIDE DEF T
    <3>8. segment \in [start : T, end : T, number : 0 .. MaxTime \cup {-1}, file : {"none", "open", "closed"},
                       part : [start : T, end : T], last : T, lost : Losses]
      BY <3>1, <3>4, <3>5 DEF SegmentTypes
    <3> QED BY <3>6, <3>7, <3>8 DEF T
  <2> QED BY <2>1, <2>2
<1> DEFINE Bounded == [stream : 0 .. MaxInstances, number : 0 .. MaxTime, header : BOOLEAN,
                       duration : -MaxTime .. 2 * MaxTime, written : Rec!Times, lost : Losses,
                       creates : 0 .. 3, completes : 0 .. 1, failed : BOOLEAN]
<1>6. disk \in [Rec!Times -> Bounded]
  <2>1. disk \in Disks
    BY <1>1 DEF RecorderTypes
  <2>2. ASSUME NEW s \in Rec!Times PROVE disk[s] \in Bounded
    <3> DEFINE file == disk[s]
    <3>1. file \in FileTypes /\ FileBounds(file) /\ file.creates <= 3
      BY FilesAre
    <3> HIDE DEF file
    <3>2. /\ file.duration \in -MaxTime .. 2 * MaxTime /\ file.creates \in 0 .. 3 /\ file.written \in Rec!Times
          /\ file.stream \in 0 .. MaxInstances /\ file.number \in 0 .. MaxTime /\ file.completes \in 0 .. 1
      BY <1>2, <3>1, FileIs DEF FileBounds
    <3> HIDE DEF Bounded
    <3>3. file \in Bounded
      BY <3>1, <3>2 DEF FileTypes, Bounded
    <3> QED BY <3>3 DEF file
  <2> HIDE DEF Bounded
  <2> QED BY <2>1, <2>2 DEF Disks
<1> QED BY <1>3, <1>4, <1>5, <1>6 DEF Rec!RecorderTypeOK, Losses

(* What is on disk when an instance has ended.                             *)
LEMMA DiskIsRecorded ==
    ASSUME RecordingInv, DoubledTracks = {}, format = "fmp4", instance.at = "done"
    PROVE  RecordedFiles(Rec!Files)
<1> DEFINE There == {f \in Rec!Times : disk[f].creates > 0}
           Of(s) == [start |-> s, stream |-> disk[s].stream, number |-> disk[s].number, header |-> disk[s].header,
                     duration |-> disk[s].duration, written |-> disk[s].written, lost |-> disk[s].lost,
                     failed |-> disk[s].failed]
<1>1. Rec!Files = {Of(s) : s \in There}
  BY Zenon DEF Rec!Files
<1>2. segment = Rec!NoSegment
  BY DEF RecordingInv, RecorderInv, LifeInv
<1>3. Sorted(disk, Rec!Times)
  BY <1>2 DEF RecordingInv, OrderInv
<1>4. \A s \in Rec!Times : disk[s] \in FileTypes /\ FileBounds(disk[s]) /\ disk[s].creates <= 3
  BY FilesAre
<1>5. Rec!Times = 0 .. MaxTime /\ MaxTime \in Nat
  BY TimesAre
<1>6. \A s \in There : /\ Of(s).start = s /\ Of(s).stream = disk[s].stream /\ Of(s).number = disk[s].number
                       /\ Of(s).duration = disk[s].duration /\ Of(s).written = disk[s].written
                       /\ Over(Of(s)) = Finished(disk, s)
                       /\ (Whole(Of(s)) <=> Whole(disk[s])) /\ (Sane(Of(s)) <=> Sane(disk[s]))
  <2>1. ASSUME NEW s \in There
        PROVE  /\ Of(s).start = s /\ Of(s).stream = disk[s].stream /\ Of(s).number = disk[s].number
               /\ Of(s).header = disk[s].header /\ Of(s).lost = disk[s].lost /\ Of(s).failed = disk[s].failed
               /\ Of(s).duration = disk[s].duration /\ Of(s).written = disk[s].written
    OBVIOUS
  <2> HIDE DEF Of
  <2>2. ASSUME NEW s \in There
        PROVE  (Rec!CanBeParsed(Of(s)) <=> Rec!CanBeParsed(disk[s])) /\ Length(Of(s)) = Length(disk[s])
    BY <2>1 DEF Rec!CanBeParsed, Length
  <2>3. ASSUME NEW s \in There PROVE Over(Of(s)) = Finished(disk, s)
    BY <2>1, <2>2 DEF Over, Finished
  <2>4. ASSUME NEW s \in There
        PROVE  (Whole(Of(s)) <=> Whole(disk[s])) /\ (Sane(Of(s)) <=> Sane(disk[s]))
    BY <2>1, <2>2 DEF Whole, Sane
  <2> QED BY <2>1, <2>3, <2>4
<1>7. \A s \in There : s \in Rec!Times /\ disk[s].creates > 0
  OBVIOUS
<1>8. \A s \in Rec!Times : disk[s].creates > 0 => s \in There
  OBVIOUS
<1> HIDE DEF There, Of
<1>9. ASSUME NEW s \in There
      PROVE  /\ s \in 0 .. MaxTime /\ disk[s].stream \in 0 .. MaxInstances /\ disk[s].number \in Nat
             /\ disk[s].duration \in Int /\ disk[s].written \in 0 .. MaxTime /\ Sane(disk[s])
             /\ \A q \in There : s < q =>
                    \/ disk[s].stream = disk[q].stream /\ disk[s].number < disk[q].number /\ Whole(disk[s])
                    \/ disk[s].stream < disk[q].stream /\ Finished(disk, s) < q
             /\ disk[s].number > 0 =>
                    \E p \in There : /\ disk[p].stream = disk[s].stream /\ disk[p].number + 1 = disk[s].number /\ p < s
                                     /\ s <= Finished(disk, p) /\ Finished(disk, p) <= s + Tolerance
  <2>1. /\ Sane(disk[s])
        /\ \A q \in Rec!Times : disk[q].creates > 0 /\ s < q => ComesBefore(disk, s, disk[q].stream, disk[q].number, q)
        /\ disk[s].number > 0 => \E p \in Rec!Times : Continues(disk, p, disk[s].stream, disk[s].number, s)
    BY <1>3, <1>7 DEF Sorted
  <2>2. disk[s] \in FileTypes /\ FileBounds(disk[s])
    BY <1>4, <1>7
  <2>3. /\ s \in 0 .. MaxTime /\ disk[s].stream \in 0 .. MaxInstances /\ disk[s].number \in Nat
        /\ disk[s].duration \in Int /\ disk[s].written \in 0 .. MaxTime
    BY <1>5, <1>7, <2>2 DEF FileBounds
  <2>4. \A q \in There : s < q => \/ disk[s].stream = disk[q].stream /\ disk[s].number < disk[q].number /\ Whole(disk[s])
                                  \/ disk[s].stream < disk[q].stream /\ Finished(disk, s) < q
    BY <1>7, <2>1 DEF ComesBefore
  <2>5. disk[s].number > 0 =>
            \E p \in There : /\ disk[p].stream = disk[s].stream /\ disk[p].number + 1 = disk[s].number /\ p < s
                             /\ s <= Finished(disk, p) /\ Finished(disk, p) <= s + Tolerance
    BY <1>8, <2>1 DEF Continues
  <2> QED BY <2>1, <2>3, <2>4, <2>5
<1> DEFINE F == {Of(s) : s \in There}
<1>10. /\ \A f \in F : /\ f.start \in 0 .. MaxTime /\ f.stream \in 0 .. MaxInstances /\ f.number \in Nat
                      /\ f.duration \in Int /\ f.written \in 0 .. MaxTime /\ Sane(f)
       /\ \A f, g \in F : f.start = g.start => f = g
  BY <1>6, <1>9
<1>11. \A f, g \in F : f.start < g.start =>
           \/ f.stream = g.stream /\ f.number < g.number /\ Whole(f)
           \/ f.stream < g.stream /\ Over(f) < g.start
  BY <1>6, <1>9
<1>12. ASSUME NEW f \in F, f.number > 0
       PROVE  \E p \in F : /\ p.stream = f.stream /\ p.number + 1 = f.number /\ p.start < f.start
                           /\ f.start <= Over(p) /\ Over(p) <= f.start + Tolerance
  <2>1. PICK x \in There : f = Of(x)
    OBVIOUS
  <2>2. PICK p \in There : /\ disk[p].stream = disk[x].stream /\ disk[p].number + 1 = disk[x].number /\ p < x
                          /\ x <= Finished(disk, p) /\ Finished(disk, p) <= x + Tolerance
    BY <1>6, <1>9, <1>12, <2>1
  <2>3. Of(p) \in F
    OBVIOUS
  <2> HIDE DEF F
  <2> QED BY <1>6, <2>1, <2>2, <2>3
<1>13. RecordedFiles(F)
  <2> HIDE DEF F
  <2> QED BY <1>10, <1>11, <1>12 DEF RecordedFiles
<1> QED BY <1>1, <1>13

LEMMA FilesArePlayable ==
    ASSUME NEW F, RecordedFiles(F)
    PROVE  Rec!FilesPlayable(F)
<1> DEFINE S == View(F, Lengths(F))
<1>1. Recording(S) /\ IsView(F, Lengths(F))
  BY LengthsAreView, ViewIsRecording
<1>2. \A f \in F : /\ Sane(f) /\ f.duration \in Int /\ f.start \in Nat
                   /\ Lengths(F)[f].start = f.start /\ Lengths(F)[f].stream = f.stream /\ Lengths(F)[f].number = f.number
                   /\ Lengths(F)[f].duration = Length(f) /\ Lengths(F)[f] \in S
                   /\ Rec!ParseSegment(f).start = f.start /\ Rec!ParseSegment(f).stream = f.stream
                   /\ Rec!ParseSegment(f).number = f.number /\ Rec!ParseSegment(f).duration = f.duration
  BY BoundsAre DEF RecordedFiles, Lengths, Seen, View, Rec!ParseSegment
<1>3. \A f \in F : ~Rec!CanBeParsed(f) => f.failed
  BY <1>2 DEF Sane
<1>4. ASSUME \A f \in F : Rec!CanBeParsed(f)
      PROVE  Rec!Cardinality(Rec!ConcatenateSegments(Rec!ParseSegments(F))) = Rec!Cardinality({f.stream : f \in F})
  <2>1. PieceOf(S, S)
    BY DEF PieceOf
  <2>2. Cardinality(Rec!ConcatenateSegments(S)) = Cardinality({s.stream : s \in S})
    <3> HIDE DEF S
    <3> QED BY <1>1, <2>1, OneEntryEach
  <2>3. {s.stream : s \in S} = {f.stream : f \in F}
    BY <1>2 DEF View
  <2>4. Rec!ParseSegments(F) = S
    BY <1>4, ParsedIsSeen
  <2> HIDE DEF S
  <2> QED BY <2>2, <2>3, <2>4, CountedAlike
<1>5. ASSUME NEW start \in 0 .. MaxTime, NEW end \in 0 .. MaxTime, start < end,
             \A f \in Rec!FindSegments(F, start, end) : Rec!CanBeParsed(f)
      PROVE  Rec!PlayableBetween(F, start, end)
  <2>1. start \in Nat /\ end \in Nat
    BY BoundsAre
  <2>2. Rec!ParseSegments(Rec!FindSegments(F, start, end)) = Rec!FindSegments(S, start, end)
    <3> DEFINE X == Rec!FindSegments(F, start, end)
    <3>1. Rec!FindSegments(S, start, end) = View(X, Lengths(F))
      BY <1>1, ViewFinds
    <3>2. X \in SUBSET F /\ \A f \in X : Rec!CanBeParsed(f)
      BY <1>5 DEF Rec!FindSegments, Rec!Before
    <3> HIDE DEF X, S
    <3>3. Rec!ParseSegments(X) = View(X, Lengths(F))
      BY <3>2, ParsedIsSeen
    <3> QED BY <3>1, <3>3 DEF X
  <2>3. ASSUME NEW time \in start .. end - 1, Rec!RecordedAt(Rec!ParseSegments(F), time)
        PROVE  \E e \in Rec!OnList(F, start, end) : e.start <= time /\ time < e.end
    <3>1. time \in Nat /\ start <= time /\ time < end
      BY <2>1
    <3>2. PICK s \in Rec!ParseSegments(F) :
              /\ s.start <= time /\ time < Rec!End(s)
              /\ \A other \in Rec!ParseSegments(F) : other.stream = s.stream /\ other.number > s.number => time < Rec!End(other)
      BY <2>3 DEF Rec!RecordedAt
    <3>3. PICK f \in F : s = Rec!ParseSegment(f)
      BY DEF Rec!ParseSegments
    <3>4. \A g \in F : Rec!ParseSegment(g) \in Rec!ParseSegments(F)
      BY DEF Rec!ParseSegments
    <3>5. ASSUME NEW g \in F
          PROVE  /\ Rec!End(Rec!ParseSegment(g)) = g.start + g.duration /\ Rec!End(Lengths(F)[g]) = g.start + Length(g)
                 /\ g.duration <= Length(g) /\ (g.duration >= 0 => Length(g) = g.duration) /\ Length(g) \in Int
      BY <1>2 DEF Sane, Length, Rec!CanBeParsed, Rec!End
    <3> DEFINE x == Lengths(F)[f]
    <3>6. x \in S /\ x.start <= time /\ time < Rec!End(x) /\ x.stream = s.stream /\ x.number = s.number
      BY <1>2, <3>1, <3>2, <3>3, <3>5
    <3>7. ASSUME NEW final \in S, final.stream = x.stream, final.number > x.number PROVE time < Rec!End(final)
      <4>1. PICK g \in F : final = Lengths(F)[g]
        BY DEF View
      <4>2. Rec!ParseSegment(g).stream = s.stream /\ Rec!ParseSegment(g).number > s.number
        BY <1>2, <3>6, <3>7, <4>1
      <4>3. time < Rec!End(Rec!ParseSegment(g))
        BY <3>2, <3>4, <4>2
      <4> QED BY <1>2, <3>1, <3>5, <4>1, <4>3
    <3> HIDE DEF x, S
    <3> QED BY <1>1, <2>1, <2>2, <3>1, <3>6, <3>7, EverythingListed
  <2>4. ASSUME NEW e \in Rec!OnList(F, start, end), NEW sent \in Rec!SeekAndMux(F, e.start, e.end)
        PROVE  e.end <= sent \/ Rec!SentAsFarAsWritten(F, e, sent)
    BY <1>5, <2>1, EverythingSent
  <2> QED BY Zenon, <2>3, <2>4 DEF Rec!PlayableBetween
<1> QED BY Zenon, <1>3, <1>4, <1>5 DEF Rec!FilesPlayable

LEMMA DiskPlayable ==
    ASSUME RecordingInv, DoubledTracks = {}
    PROVE  Rec!SegmentsPlayable
BY DiskIsRecorded, FilesArePlayable DEF Rec!SegmentsPlayable
=============================================================================
