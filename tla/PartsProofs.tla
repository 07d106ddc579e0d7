----------------------------- MODULE PartsProofs ------------------------------
(***************************************************************************)
(* Every part that works on its own is of the right type, keeps recordings *)
(* and what is read from them sound, and drops nothing without counting    *)
(* it: TypeOK, RecordingsSound and NothingDropped, for any number of       *)
(* tracks, readers, formats, commands, candidates and requests, and any    *)
(* times. Each part has an inductive invariant of its own: RecordingInv    *)
(* (RecordingProofs), CommandInv and AuthInv (MediaProofs), and those      *)
(* below. PartsInv is the one of the part that runs.                       *)
(***************************************************************************)
EXTENDS RecordingProofs

-----------------------------------------------------------------------------
(* The cleaner.                                                            *)

(* What is left of the interval, and how long ago it began: since then     *)
(* either the configuration has come, or what had expired is gone.         *)
Began == now + timer - Cln!CleanInterval(deleteAfter)
CleanerInv ==
    /\ Cln!CleanerTypeOK
    /\ timer <= Cln!CleanInterval(deleteAfter) /\ reloaded <= Began
    /\ deleteAfter # 0 /\ reloaded # Began => \A s \in stored : Began < s.start + deleteAfter

LEMMA IntervalIs ==
    ASSUME NEW after \in DeleteAfters
    PROVE  /\ after \in Nat /\ Cln!CleanInterval(after) \in 0 .. LongInterval
           /\ after # 0 => Cln!CleanInterval(after) <= after \div 2
<1>1. after \in Nat /\ LongInterval \in Nat
  BY MediaAssumption DEF Cln!CleanerAssumption
<1>2. after \div 2 \in Nat
  BY <1>1
<1> QED BY <1>1, <1>2 DEF Cln!CleanInterval

LEMMA CleanerFirst == Cln!CleanerInit => CleanerInv
<1> SUFFICES ASSUME Cln!CleanerInit PROVE CleanerInv
  OBVIOUS
<1>1. deleteAfter \in DeleteAfters /\ LongInterval \in Nat /\ LastTime \in Nat
  BY MediaAssumption DEF Cln!CleanerAssumption, Cln!CleanerInit
<1>2. Cln!CleanInterval(deleteAfter) \in 0 .. LongInterval
  BY <1>1, IntervalIs
<1>3. timer = Cln!CleanInterval(deleteAfter) /\ now = 0 /\ stored = {} /\ reloaded = 0 /\ cleaner = "running" /\ cancelled = FALSE
  BY DEF Cln!CleanerInit
<1>4. Began = 0
  BY <1>2, <1>3 DEF Began
<1>5. Cln!CleanerTypeOK
  <2>1. timer \in 0 .. LongInterval /\ now \in 0 .. LastTime /\ reloaded \in 0 .. now
    BY <1>1, <1>2, <1>3
  <2>2. cleaner \in {"running", "ended"} /\ cancelled \in BOOLEAN /\ stored \subseteq [start : 0 .. now]
    BY <1>3
  <2> QED BY <1>1, <2>1, <2>2 DEF Cln!CleanerTypeOK
<1> QED BY <1>2, <1>3, <1>4, <1>5 DEF CleanerInv

LEMMA CleanerStep ==
    ASSUME CleanerInv, Cln!CleanerNext
    PROVE  CleanerInv'
<1> DEFINE interval == Cln!CleanInterval(deleteAfter)
<1>1. /\ cleaner \in {"running", "ended"} /\ cancelled \in BOOLEAN /\ deleteAfter \in DeleteAfters /\ timer \in 0 .. LongInterval
      /\ now \in 0 .. LastTime /\ reloaded \in 0 .. now /\ stored \subseteq [start : 0 .. now]
      /\ timer <= interval /\ reloaded <= now + timer - interval
      /\ deleteAfter # 0 /\ reloaded # now + timer - interval => \A s \in stored : now + timer - interval < s.start + deleteAfter
  BY DEF CleanerInv, Cln!CleanerTypeOK, Began
<1>2. /\ deleteAfter \in Nat /\ interval \in 0 .. LongInterval /\ LongInterval \in Nat /\ LastTime \in Nat
      /\ now \in Nat /\ timer \in Nat /\ reloaded \in Nat /\ \A s \in stored : s.start \in 0 .. now
  BY <1>1, IntervalIs, MediaAssumption DEF Cln!CleanerAssumption
<1> HIDE DEF interval
<1>3. CASE Cln!TimePasses
  <2>1. /\ timer' = timer - 1 /\ now' = now + 1 /\ timer > 0 /\ now < LastTime
        /\ UNCHANGED <<cleaner, cancelled, deleteAfter, stored, reloaded>>
    BY <1>3 DEF Cln!TimePasses
  <2>2. Cln!CleanInterval(deleteAfter)' = interval /\ now' + timer' = now + timer
    BY <1>2, <2>1 DEF interval, Cln!CleanInterval
  <2>3. stored' \subseteq [start : 0 .. now'] /\ timer' \in 0 .. LongInterval /\ now' \in 0 .. LastTime /\ reloaded' \in 0 .. now'
        /\ timer' <= interval
    BY <1>1, <1>2, <2>1
  <2> QED BY <1>1, <1>2, <2>1, <2>2, <2>3 DEF CleanerInv, Cln!CleanerTypeOK, Began
<1>4. CASE Cln!SegmentStored
  <2>1. stored' = stored \cup {[start |-> now]} /\ UNCHANGED <<cleaner, cancelled, deleteAfter, timer, now, reloaded>>
    BY <1>4 DEF Cln!SegmentStored
  <2>2. Cln!CleanInterval(deleteAfter)' = interval
    BY <2>1 DEF interval, Cln!CleanInterval
  <2>3. stored' \subseteq [start : 0 .. now']
    BY <1>1, <1>2, <2>1
  <2>4. ASSUME deleteAfter # 0, reloaded # now + timer - interval, NEW s \in stored'
        PROVE  now + timer - interval < s.start + deleteAfter
    BY <1>1, <1>2, <2>1, <2>4
  <2> QED BY <1>1, <1>2, <2>1, <2>2, <2>3, <2>4 DEF CleanerInv, Cln!CleanerTypeOK, Began
<1>5. CASE Cln!DoRun
  <2>1. /\ timer = 0 /\ stored' = Cln!Cleaned /\ timer' = interval
        /\ UNCHANGED <<cleaner, cancelled, deleteAfter, now, reloaded>>
    BY <1>5 DEF Cln!DoRun, interval
  <2>2. Cln!CleanInterval(deleteAfter)' = interval
    BY <2>1 DEF interval, Cln!CleanInterval
  <2>3. stored' \subseteq stored /\ (deleteAfter # 0 => \A s \in stored' : now < s.start + deleteAfter)
    BY <1>2, <2>1 DEF Cln!Cleaned, Cln!Expired
  <2> QED BY <1>1, <1>2, <2>1, <2>2, <2>3 DEF CleanerInv, Cln!CleanerTypeOK, Began
<1>6. CASE Cln!ReloadPathConfs
  <2>1. /\ deleteAfter' \in DeleteAfters /\ timer' = Cln!CleanInterval(deleteAfter') /\ reloaded' = now
        /\ UNCHANGED <<cleaner, cancelled, now, stored>>
    BY <1>6 DEF Cln!ReloadPathConfs
  <2>2. Cln!CleanInterval(deleteAfter') \in 0 .. LongInterval /\ Cln!CleanInterval(deleteAfter)' = Cln!CleanInterval(deleteAfter')
    BY <2>1, IntervalIs DEF Cln!CleanInterval
  <2> QED BY <1>1, <1>2, <2>1, <2>2 DEF CleanerInv, Cln!CleanerTypeOK, Began
<1>7. CASE Cln!CleanerClose \/ Cln!CleanerEnds
  <2>1. UNCHANGED <<deleteAfter, timer, now, stored, reloaded>> /\ cleaner' \in {"running", "ended"} /\ cancelled' \in BOOLEAN
    BY <1>1, <1>7 DEF Cln!CleanerClose, Cln!CleanerEnds
  <2>2. Cln!CleanInterval(deleteAfter)' = interval
    BY <2>1 DEF interval, Cln!CleanInterval
  <2> QED BY <1>1, <1>2, <2>1, <2>2 DEF CleanerInv, Cln!CleanerTypeOK, Began
<1> QED BY <1>3, <1>4, <1>5, <1>6, <1>7 DEF Cln!CleanerNext, Cln!CleanerGoesOn

LEMMA CleanerInTime == CleanerInv => Cln!CleanedInTime
<1> SUFFICES ASSUME CleanerInv, deleteAfter # 0, NEW s \in stored
             PROVE  LET due == IF s.start + deleteAfter > reloaded THEN s.start + deleteAfter ELSE reloaded
                    IN  now <= due + (deleteAfter \div 2) /\ now <= due + LongInterval
  BY DEF Cln!CleanedInTime
<1> DEFINE interval == Cln!CleanInterval(deleteAfter)
           due == IF s.start + deleteAfter > reloaded THEN s.start + deleteAfter ELSE reloaded
           half == deleteAfter \div 2
<1>1. /\ deleteAfter \in DeleteAfters /\ timer \in 0 .. LongInterval
      /\ now \in 0 .. LastTime /\ reloaded \in 0 .. now /\ stored \subseteq [start : 0 .. now]
      /\ timer <= interval /\ reloaded <= now + timer - interval
      /\ reloaded # now + timer - interval => now + timer - interval < s.start + deleteAfter
  BY DEF CleanerInv, Cln!CleanerTypeOK, Began
<1>2. /\ deleteAfter \in Nat /\ interval \in 0 .. LongInterval /\ interval <= half /\ LongInterval \in Nat
      /\ LastTime \in Nat
  BY <1>1, IntervalIs, MediaAssumption DEF Cln!CleanerAssumption
<1>3. half \in Nat
  BY <1>2
<1>4. now \in Nat /\ timer \in Nat /\ reloaded \in Nat /\ s.start \in Nat
  BY <1>1, <1>2
<1> HIDE DEF interval, half
<1>5. due \in Nat /\ now + timer - interval <= due
  BY <1>1, <1>2, <1>4
<1> HIDE DEF due
<1>6. now <= due + half /\ now <= due + LongInterval
  BY <1>2, <1>3, <1>4, <1>5
<1> QED BY <1>6 DEF due, half

-----------------------------------------------------------------------------
(* The certificate.                                                        *)

(* A file that has changed is still to be read, or somebody knows, unless  *)
(* the change was thrown away.                                             *)
ReadInv(f) ==
    ~event[f] /\ watcher[f] = "idle" /\ ~missed[f] =>
        read[f] = files[f] \/ loader = "certificate" \/ (loader = "key" /\ f = "key")
CertInv ==
    /\ Crt!CertTypeOK
    /\ closer = "no" =>
           /\ loader # "ended"
           /\ \A f \in Crt!Files : ReadInv(f)
           /\ loader = "select" /\ read["certificate"] = read["key"] => loaded = read["key"]

LEMMA CertFirst == Crt!CertInit => CertInv
  BY MediaAssumption DEF CertInv, ReadInv, Crt!CertInit, Crt!CertTypeOK, Crt!CertAssumption, Crt!Files, Crt!Nil

LEMMA CertStep ==
    ASSUME CertInv, Crt!CertNext
    PROVE  CertInv'
<1> USE DEF Crt!Files
<1>0. MaxVersion \in Nat
  BY MediaAssumption DEF Crt!CertAssumption
<1>1. ASSUME NEW f \in Crt!Files, Crt!FileWritten(f) PROVE CertInv'
  BY <1>0, <1>1 DEF CertInv, ReadInv, Crt!CertTypeOK, Crt!FileWritten, Crt!Nil
<1>2. ASSUME NEW f \in Crt!Files, Crt!IntervalOver(f) PROVE CertInv'
  BY <1>2 DEF CertInv, ReadInv, Crt!CertTypeOK, Crt!IntervalOver
<1>3. ASSUME NEW f \in Crt!Files, Crt!EventThrownAway(f) PROVE CertInv'
  BY <1>3 DEF CertInv, ReadInv, Crt!CertTypeOK, Crt!EventThrownAway
<1>4. ASSUME NEW f \in Crt!Files, Crt!EventTaken(f) \/ Crt!WatcherFails(f) PROVE CertInv'
  <2>1. CASE Crt!EventTaken(f)
    BY <2>1 DEF CertInv, ReadInv, Crt!CertTypeOK, Crt!EventTaken
  <2>2. CASE Crt!WatcherFails(f)
    BY <2>2 DEF CertInv, ReadInv, Crt!CertTypeOK, Crt!WatcherFails
  <2> QED BY <1>4, <2>1, <2>2
<1>5. ASSUME NEW f \in Crt!Files, Crt!WatcherTerminated(f) PROVE CertInv'
  BY <1>5 DEF CertInv, ReadInv, Crt!CertTypeOK, Crt!WatcherTerminated
<1>6. ASSUME NEW f \in Crt!Files, Crt!Signal(f) PROVE CertInv'
  BY <1>6 DEF CertInv, ReadInv, Crt!CertTypeOK, Crt!Signal
<1>7. CASE Crt!ReadCertificate
  BY <1>7 DEF CertInv, ReadInv, Crt!CertTypeOK, Crt!ReadCertificate, Crt!Reads
<1>8. CASE Crt!ReadKey
  BY <1>0, <1>8 DEF CertInv, ReadInv, Crt!CertTypeOK, Crt!ReadKey, Crt!Reads, Crt!Nil
<1>9. CASE Crt!Done \/ Crt!Close
  BY <1>9 DEF CertInv, ReadInv, Crt!CertTypeOK, Crt!Done, Crt!Close
<1>10. CASE Crt!WatcherClosed
  BY <1>0, <1>10 DEF CertInv, ReadInv, Crt!CertTypeOK, Crt!WatcherClosed, Crt!Nil
<1> QED BY <1>1, <1>2, <1>3, <1>4, <1>5, <1>6, <1>7, <1>8, <1>9, <1>10 DEF Crt!CertNext, Crt!LoaderGoesOn, Crt!CloserGoesOn

LEMMA CertLoaded == CertInv => Crt!ChangesLoaded
  BY DEF CertInv, ReadInv, Crt!ChangesLoaded, Crt!Files

-----------------------------------------------------------------------------
(* The estimator.                                                          *)

(* MultiplyAndDivide does not overtake itself, and rounds towards zero.    *)
Rate(v) == Est!MultiplyAndDivide(v, Second, ClockRate)

LEMMA DivIs ==
    ASSUME NEW a \in Nat, NEW d \in Nat \ {0}
    PROVE  a \div d \in Nat /\ (a \div d) * d <= a /\ a < (a \div d) * d + d
OBVIOUS

LEMMA DivGrows ==
    ASSUME NEW a \in Nat, NEW b \in Nat, a <= b, NEW d \in Nat \ {0}
    PROVE  a \div d <= b \div d
<1> DEFINE x == a \div d  y == b \div d
<1>1. x \in Nat /\ y \in Nat /\ x * d <= a /\ b < y * d + d
  BY DivIs
<1> HIDE DEF x, y
<1>2. x * d \in Nat /\ y * d \in Nat /\ (y + 1) * d = y * d + d
  BY <1>1
<1>3. x * d < (y + 1) * d
  BY <1>1, <1>2
<1>4. ~(y + 1 <= x)
  <2>1. ASSUME y + 1 <= x PROVE (y + 1) * d <= x * d
    BY <1>1, <2>1
  <2> QED BY <1>1, <1>2, <1>3, <2>1
<1>5. x <= y
  BY <1>1, <1>4
<1> QED BY <1>5 DEF x, y

(* Of a number that is not negative: whole seconds, and what is left.      *)
LEMMA RateIs ==
    ASSUME NEW v \in Nat
    PROVE  \E q \in Nat, r \in Nat :
               /\ v = q * ClockRate + r /\ r < ClockRate
               /\ Rate(v) = q * Second + ((r * Second) \div ClockRate)
               /\ v # 0 => Rate(-v) = -Rate(v)
<1> DEFINE d == ClockRate  m == Second  q == v \div d  r == v - q * d
<1>1. d \in Nat \ {0} /\ m \in Nat
  BY MediaAssumption DEF Est!EstimatorAssumption
<1>2. q \in Nat /\ q * d <= v /\ v < q * d + d /\ q * d \in Nat
  BY <1>1, DivIs
<1>3. r \in Nat /\ r < d /\ v = q * d + r
  BY <1>1, <1>2
<1>4. r * m \in Nat
  BY <1>1, <1>3
<1>5. Rate(v) = q * m + ((r * m) \div d)
  <2>1. Est!Div(v, d) = q
    BY DEF Est!Div
  <2>2. Rate(v) = q * m + Est!Div((v - q * d) * m, d)
    BY <2>1 DEF Rate, Est!MultiplyAndDivide
  <2>3. Est!Div(r * m, d) = (r * m) \div d
    BY <1>4 DEF Est!Div
  <2> QED BY <2>2, <2>3
<1>6. ASSUME v # 0 PROVE Rate(-v) = -Rate(v)
  <2> DEFINE p == r * m  e == p \div d
  <2>1. Est!Div(-v, d) = -q
    BY <1>6 DEF Est!Div
  <2>2. Rate(-v) = (-q) * m + Est!Div(((-v) - (-q) * d) * m, d)
    BY <2>1 DEF Rate, Est!MultiplyAndDivide
  <2>3. ((-v) - (-q) * d) * m = -p
    <3> HIDE DEF q
    <3>1. (-q) * d = -(q * d)
      BY <1>1, <1>2
    <3>2. (-v) - (-q) * d = -r
      BY <1>2, <3>1
    <3> HIDE DEF r
    <3>3. (-r) * m = -(r * m)
      BY <1>1, <1>3
    <3> QED BY <3>2, <3>3
  <2>4. Est!Div(-p, d) = -e
    <3>1. CASE p = 0
      <4>1. p \div d = 0
        BY <1>1, <3>1
      <4>2. -p = 0
        BY <3>1
      <4> QED BY <4>1, <4>2, <3>1 DEF Est!Div
    <3>2. CASE p # 0
      <4>1. -p < 0 /\ -(-p) = p
        BY <1>4, <3>2
      <4> HIDE DEF p
      <4> QED BY <4>1 DEF Est!Div
    <3> QED BY <3>1, <3>2
  <2>5. e \in Nat
    BY <1>1, <1>4, DivIs
  <2>6. Rate(v) = q * m + e
    BY <1>5
  <2>7. Rate(-v) = (-q) * m + (-e)
    BY <2>2, <2>3, <2>4
  <2> HIDE DEF q, e
  <2>8. (-q) * m = -(q * m) /\ q * m \in Nat
    BY <1>1, <1>2
  <2> QED BY <2>5, <2>6, <2>7, <2>8
<1> HIDE DEF q, r
<1> QED BY <1>2, <1>3, <1>5, <1>6

LEMMA RateOfNat ==
    ASSUME NEW v \in Nat
    PROVE  Rate(v) \in Nat /\ (v = 0 => Rate(v) = 0)
<1>1. PICK q \in Nat, r \in Nat : v = q * ClockRate + r /\ Rate(v) = q * Second + ((r * Second) \div ClockRate)
  BY RateIs
<1>2. ClockRate \in Nat \ {0} /\ Second \in Nat
  BY MediaAssumption DEF Est!EstimatorAssumption
<1>3. q * ClockRate \in Nat /\ q * Second \in Nat /\ r * Second \in Nat
  BY <1>2
<1>4. (r * Second) \div ClockRate \in Nat
  BY <1>2, <1>3, DivIs
<1>5. ASSUME v = 0 PROVE Rate(v) = 0
  <2>1. q * ClockRate = 0 /\ r = 0
    BY <1>1, <1>3, <1>5
  <2>2. q = 0
    BY <1>2, <2>1
  <2>3. q * Second = 0 /\ r * Second = 0
    BY <1>2, <2>1, <2>2
  <2>4. (r * Second) \div ClockRate = 0
    BY <1>2, <2>3
  <2> QED BY <1>1, <2>3, <2>4
<1> QED BY <1>1, <1>3, <1>4, <1>5

LEMMA RateGrowsNat ==
    ASSUME NEW v \in Nat, NEW w \in Nat, v <= w
    PROVE  Rate(v) <= Rate(w)
<1>0. \A n \in Nat : \E q \in Nat, r \in Nat :
          /\ n = q * ClockRate + r /\ r < ClockRate
          /\ Rate(n) = q * Second + ((r * Second) \div ClockRate)
  <2> TAKE n \in Nat
  <2>1. PICK q \in Nat, r \in Nat :
            /\ n = q * ClockRate + r /\ r < ClockRate
            /\ Rate(n) = q * Second + ((r * Second) \div ClockRate)
            /\ n # 0 => Rate(-n) = -Rate(n)
    BY Zenon, RateIs
  <2> QED BY <2>1
<1> DEFINE d == ClockRate  m == Second
<1>1. d \in Nat \ {0} /\ m \in Nat
  BY MediaAssumption DEF Est!EstimatorAssumption
<1>2. PICK q \in Nat, r \in Nat : v = q * d + r /\ r < d /\ Rate(v) = q * m + ((r * m) \div d)
  BY Zenon, <1>0
<1>3. PICK p \in Nat, s \in Nat : w = p * d + s /\ s < d /\ Rate(w) = p * m + ((s * m) \div d)
  BY Zenon, <1>0
<1> DEFINE x == (r * m) \div d  y == (s * m) \div d
<1> HIDE DEF d, m
<1>4. r * m \in Nat /\ s * m \in Nat /\ q * m \in Nat /\ p * m \in Nat /\ q * d \in Nat /\ p * d \in Nat
  BY <1>1
<1>5. x \in Nat /\ y \in Nat /\ x * d <= r * m
  BY <1>1, <1>4, DivIs
<1>6. q <= p
  <2>1. ASSUME p + 1 <= q PROVE FALSE
    <3>1. (p + 1) * d <= q * d /\ (p + 1) * d = p * d + d
      BY <1>1, <2>1
    <3> QED BY <1>1, <1>2, <1>3, <1>4, <3>1
  <2> QED BY <2>1
<1>7. CASE q = p
  <2>1. r <= s
    BY <1>2, <1>3, <1>4, <1>7
  <2>2. r * m <= s * m
    BY <1>1, <2>1
  <2>3. x <= y
    BY <1>1, <1>4, <2>2, DivGrows
  <2> HIDE DEF x, y
  <2> QED BY <1>2, <1>3, <1>4, <1>5, <1>7, <2>3 DEF x, y
<1>8. CASE q < p
  <2>1. (q + 1) * m <= p * m /\ (q + 1) * m = q * m + m
    BY <1>1, <1>8
  <2>2. x <= m
    <3> HIDE DEF x
    <3>1. ASSUME m + 1 <= x PROVE FALSE
      <4>1. (m + 1) * d <= x * d /\ (m + 1) * d = m * d + d /\ m * d \in Nat
        BY <1>1, <1>5, <3>1
      <4>2. r * m <= d * m /\ d * m = m * d
        BY <1>1, <1>2
      <4> QED BY <1>1, <1>4, <1>5, <4>1, <4>2
    <3> QED BY <1>1, <1>5, <3>1
  <2> HIDE DEF x, y
  <2> QED BY <1>1, <1>2, <1>3, <1>4, <1>5, <2>1, <2>2 DEF x, y
<1> QED BY <1>6, <1>7, <1>8

LEMMA RateGrows ==
    ASSUME NEW v \in Int, NEW w \in Int, v <= w
    PROVE  Rate(v) \in Int /\ Rate(w) \in Int /\ Rate(v) <= Rate(w)
<1>1. ASSUME NEW u \in Int, u < 0 PROVE Rate(u) = -Rate(-u) /\ Rate(-u) \in Nat /\ -u \in Nat
  <2>1. -u \in Nat /\ -u # 0 /\ -(-u) = u
    BY <1>1
  <2>2. Rate(-(-u)) = -Rate(-u)
    <3> DEFINE n == -u
    <3>1. n \in Nat /\ n # 0
      BY <2>1
    <3> HIDE DEF n
    <3>2. Rate(-n) = -Rate(n)
      BY <3>1, RateIs
    <3> QED BY <3>2 DEF n
  <2> QED BY <2>1, <2>2, RateOfNat
<1>2. CASE 0 <= v
  BY <1>2, RateOfNat, RateGrowsNat
<1>3. CASE v < 0 /\ 0 <= w
  BY <1>1, <1>3, RateOfNat
<1>4. CASE w < 0
  <2>1. -w <= -v /\ -w \in Nat /\ -v \in Nat
    BY <1>4
  <2>2. Rate(-w) <= Rate(-v)
    BY <2>1, RateGrowsNat
  <2> QED BY <1>1, <1>4, <2>1, <2>2
<1> QED BY <1>2, <1>3, <1>4

(* The last estimate is the one that is computed from the reference.       *)
EstimatorInv ==
    /\ Est!EstimatorTypeOK /\ Est!NeverBack
    /\ previous.pts \in Nat
    /\ IF refNTP = Est!Zero THEN last = Est!NoEstimate
       ELSE last.ntp = refNTP + Rate(last.pts - refPTS)

LEMMA EstimatorFirst == Est!EstimatorInit => EstimatorInv
  BY MediaAssumption DEF EstimatorInv, Est!EstimatorInit, Est!EstimatorTypeOK, Est!NeverBack, Est!NoEstimate, Est!Zero,
     Est!EstimatorAssumption

LEMMA EstimatorStep ==
    ASSUME EstimatorInv, Est!EstimatorNext
    PROVE  EstimatorInv'
<1>0. /\ MaxPTS \in Nat /\ LastClock \in Nat /\ MaxTimeDifference \in Nat
      /\ refNTP \in -1 .. LastClock /\ refPTS \in 0 .. MaxPTS /\ serverClock \in 0 .. LastClock
      /\ last \in [pts : 0 .. MaxPTS, ntp : -1 - MaxTimeDifference .. LastClock]
      /\ last.pts \in Nat /\ last.ntp \in Int /\ last.ntp <= serverClock
  BY MediaAssumption DEF Est!EstimatorAssumption, EstimatorInv, Est!EstimatorTypeOK, Est!Zero, Est!NeverBack
<1>1. PICK pts \in 0 .. MaxPTS, time \in serverClock .. LastClock : Est!Estimate(pts, time)
  BY DEF Est!EstimatorNext
<1> DEFINE ntp == Est!Computed(pts)
<1>2. serverClock' = time /\ previous' = last /\ time \in 0 .. LastClock /\ serverClock <= time
  BY <1>0, <1>1 DEF Est!Estimate
<1>3. CASE Est!Reliable(ntp, time)
  <2>1. /\ refNTP' = refNTP /\ refPTS' = refPTS /\ last' = [pts |-> pts, ntp |-> ntp]
        /\ refNTP # -1 /\ ntp <= time /\ ntp >= time - MaxTimeDifference
    BY <1>1, <1>3 DEF Est!Estimate, Est!Reliable, Est!Zero
  <2>2. ntp = refNTP + Rate(pts - refPTS) /\ last.ntp = refNTP + Rate(last.pts - refPTS)
    BY <2>1 DEF Est!Computed, Rate, EstimatorInv, Est!Zero
  <2>3. Rate(pts - refPTS) \in Int /\ Rate(last.pts - refPTS) \in Int
        /\ (last.pts <= pts => Rate(last.pts - refPTS) <= Rate(pts - refPTS))
    <3>1. pts - refPTS \in Int /\ last.pts - refPTS \in Int /\ (last.pts <= pts => last.pts - refPTS <= pts - refPTS)
      BY <1>0
    <3> DEFINE x == pts - refPTS  y == last.pts - refPTS
    <3> HIDE DEF x, y
    <3>2. \A a, b \in Int : a <= b => Rate(a) \in Int /\ Rate(b) \in Int /\ Rate(a) <= Rate(b)
      BY RateGrows
    <3>3. x <= x /\ y <= y
      BY <3>1 DEF x, y
    <3>4. x \in Int /\ y \in Int /\ (last.pts <= pts => y <= x)
      BY <3>1 DEF x, y
    <3>5. Rate(x) \in Int /\ Rate(y) \in Int /\ (last.pts <= pts => Rate(y) <= Rate(x))
      BY <3>2, <3>3, <3>4
    <3> QED BY <3>5 DEF x, y
  <2>4. ntp \in -1 - MaxTimeDifference .. LastClock
    <3> HIDE DEF ntp
    <3>1. ntp \in Int
      BY <1>0, <2>2, <2>3
    <3> QED BY <1>0, <1>2, <2>1, <3>1
  <2>5. Est!EstimatorTypeOK'
    BY <1>0, <1>2, <2>1, <2>4 DEF Est!EstimatorTypeOK, Est!Zero
  <2>6. Est!NeverBack'
    <3> HIDE DEF ntp
    <3> QED BY <1>0, <1>2, <2>1, <2>2, <2>3 DEF Est!NeverBack
  <2>7. previous'.pts \in Nat /\ last'.ntp = refNTP' + Rate(last'.pts - refPTS') /\ refNTP' # Est!Zero
    BY <1>0, <1>2, <2>1, <2>2 DEF Est!Zero
  <2> QED BY <2>5, <2>6, <2>7 DEF EstimatorInv
<1>4. CASE ~Est!Reliable(ntp, time)
  <2>1. refNTP' = time /\ refPTS' = pts /\ last' = [pts |-> pts, ntp |-> time]
    BY <1>1, <1>4 DEF Est!Estimate
  <2>2. Rate(pts - pts) = 0
    <3>1. pts - pts = 0
      OBVIOUS
    <3> QED BY <3>1, RateOfNat
  <2>3. Est!EstimatorTypeOK'
    BY <1>0, <1>2, <2>1 DEF Est!EstimatorTypeOK, Est!Zero
  <2>4. Est!NeverBack'
    BY <1>0, <1>2, <2>1 DEF Est!NeverBack
  <2>5. previous'.pts \in Nat /\ last'.ntp = refNTP' + Rate(last'.pts - refPTS') /\ refNTP' # Est!Zero
    BY <1>0, <1>2, <2>1, <2>2 DEF Est!Zero
  <2> QED BY <2>3, <2>4, <2>5 DEF EstimatorInv
<1> QED BY <1>3, <1>4

-----------------------------------------------------------------------------
(* The units of a stream.                                                  *)

Units == [format : Formats, unit : Nat]
Accounts == [given : Nat, called : Nat, discarded : Nat, last : [Formats -> Nat]]
Writers == [Formats -> [at : {"idle", "waiting", "writing"}, unit : Nat, todo : SUBSET Readers]]

(* What a reader has of a format is what was written, but for the unit     *)
(* that is being written.                                                  *)
Pushes(w, r) == w.at = "waiting" \/ r \in w.todo
Older(unit, w, r) == unit <= w.unit /\ (Pushes(w, r) => unit < w.unit)
IsAccount(a, queue, writers, r) ==
    /\ a.given = a.called + a.discarded + Len(queue) /\ Len(queue) <= QueueSize
    /\ \A f \in Formats : Older(a.last[f], writers[f], r)
    /\ \A i \in DOMAIN queue :
           /\ Older(queue[i].unit, writers[queue[i].format], r)
           /\ a.last[queue[i].format] < queue[i].unit
           /\ \A j \in 1 .. i - 1 : queue[j].format = queue[i].format => queue[j].unit < queue[i].unit
UnitsInv ==
    /\ StreamInv /\ stats \in {"idle", "waiting"}
    /\ buffer \in [Readers -> [queue : Seq(Units), closed : BOOLEAN]]
    /\ account \in [Readers -> Accounts]
    /\ \A r \in Readers : IsAccount(account[r], buffer[r].queue, writer, r)

LEMMA UnitsFirst == Str!StreamInit => UnitsInv
<1> SUFFICES ASSUME Str!StreamInit PROVE UnitsInv
  OBVIOUS
<1>1. <<>> \in Seq(Units) /\ Len(<<>>) = 0 /\ DOMAIN <<>> = {} /\ QueueSize \in Nat
  BY MediaAssumption DEF Str!QueueAssumption
<1>2. StreamInv
  BY StreamFirst
<1>3. buffer \in [Readers -> [queue : Seq(Units), closed : BOOLEAN]] /\ account \in [Readers -> Accounts]
  BY <1>1 DEF Str!StreamInit, Accounts
<1>4. ASSUME NEW r \in Readers PROVE IsAccount(account[r], buffer[r].queue, writer, r)
  <2>1. /\ buffer[r].queue = <<>>
        /\ account[r] = [given |-> 0, called |-> 0, discarded |-> 0, last |-> [f \in Formats |-> 0]]
    BY DEF Str!StreamInit
  <2>2. \A f \in Formats : writer[f].unit = 0 /\ writer[f].todo = {} /\ writer[f].at = "idle"
    BY DEF Str!StreamInit
  <2> QED BY <1>1, <2>1, <2>2 DEF IsAccount, Older, Pushes
<1> QED BY <1>2, <1>3, <1>4 DEF UnitsInv, Str!StreamInit

(* Nobody comes to be pushed to, but where a unit is new.                  *)
Goes(w, x) ==
    \/ x.unit = w.unit /\ \A r \in Readers : Pushes(x, r) => Pushes(w, r)
    \/ x.unit = w.unit + 1

LEMMA AccountStays ==
    ASSUME NEW a \in Accounts, NEW queue \in Seq(Units), NEW ws \in Writers, NEW xs \in Writers, NEW r \in Readers,
           \A f \in Formats : Goes(ws[f], xs[f]), IsAccount(a, queue, ws, r)
    PROVE  IsAccount(a, queue, xs, r)
<1>1. ASSUME NEW f \in Formats, NEW unit \in Nat, Older(unit, ws[f], r) PROVE Older(unit, xs[f], r)
  <2>1. ws[f].unit \in Nat /\ xs[f].unit \in Nat /\ Goes(ws[f], xs[f])
    BY DEF Writers
  <2> QED BY <1>1, <2>1 DEF Older, Goes
<1>2. \A f \in Formats : Older(a.last[f], xs[f], r)
  BY <1>1 DEF IsAccount, Accounts
<1>3. \A i \in DOMAIN queue : Older(queue[i].unit, xs[queue[i].format], r)
  <2> TAKE i \in DOMAIN queue
  <2>0. queue[i] \in Units
    OBVIOUS
  <2>1. queue[i].unit \in Nat /\ queue[i].format \in Formats
    BY <2>0 DEF Units
  <2> QED BY <1>1, <2>1 DEF IsAccount
<1> QED BY <1>2, <1>3 DEF IsAccount

LEMMA UnitsLeft ==
    ASSUME UnitsInv, StreamInv', stats' \in {"idle", "waiting"}, account' = account,
           buffer' \in [Readers -> [queue : Seq(Units), closed : BOOLEAN]],
           \A r \in Readers : buffer'[r].queue = buffer[r].queue,
           \A f \in Formats : Goes(writer[f], writer'[f])
    PROVE  UnitsInv'
<1>1. writer \in Writers /\ writer' \in Writers
  BY DEF UnitsInv, StreamInv, StreamTypes, Writers
<1>2. ASSUME NEW r \in Readers PROVE IsAccount(account'[r], buffer'[r].queue, writer', r)
  <2>1. account[r] \in Accounts /\ buffer[r].queue \in Seq(Units) /\ IsAccount(account[r], buffer[r].queue, writer, r)
    BY DEF UnitsInv
  <2>2. IsAccount(account[r], buffer[r].queue, writer', r)
    BY <1>1, <2>1, AccountStays
  <2> QED BY <2>2
<1> QED BY <1>2 DEF UnitsInv

(* A unit that fits is the last one in the queue.                          *)
LEMMA AccountPushed ==
    ASSUME NEW a \in Accounts, NEW queue \in Seq(Units), NEW ws \in Writers, NEW xs \in Writers, NEW r \in Readers,
           \A g \in Formats : Goes(ws[g], xs[g]), IsAccount(a, queue, ws, r),
           NEW f \in Formats, Pushes(ws[f], r), ~Pushes(xs[f], r), xs[f].unit = ws[f].unit,
           Len(queue) < QueueSize
    PROVE  IsAccount([a EXCEPT !.given = @ + 1], Append(queue, [format |-> f, unit |-> ws[f].unit]), xs, r)
<1> DEFINE b == [a EXCEPT !.given = @ + 1]
           u == [format |-> f, unit |-> ws[f].unit]
           q == Append(queue, u)
           n == Len(queue)
<1>1. IsAccount(a, queue, xs, r)
  BY AccountStays
<1>2. ws[f].unit \in Nat /\ QueueSize \in Nat /\ n \in Nat /\ u \in Units
  BY MediaAssumption DEF Writers, Str!QueueAssumption, Units
<1>3. /\ a.given \in Nat /\ a.called \in Nat /\ a.discarded \in Nat /\ a.last \in [Formats -> Nat]
      /\ b.given = a.given + 1 /\ b.called = a.called /\ b.discarded = a.discarded /\ b.last = a.last
  BY DEF Accounts
<1>4. Len(q) = n + 1 /\ DOMAIN q = 1 .. n + 1 /\ DOMAIN queue = 1 .. n /\ q[n + 1] = u /\ \A i \in 1 .. n : q[i] = queue[i]
  BY <1>2
<1>0. \A i \in 1 .. n : queue[i] \in Units
  OBVIOUS
<1> HIDE DEF b, q, n
<1>5. \A i \in 1 .. n : queue[i].unit \in Nat /\ queue[i].format \in Formats
  BY <1>0 DEF Units
<1>6. /\ a.last[f] < ws[f].unit /\ Older(ws[f].unit, xs[f], r)
      /\ \A j \in 1 .. n : queue[j].format = f => queue[j].unit < ws[f].unit
  <2>1. a.last[f] < ws[f].unit
    BY DEF IsAccount, Older
  <2>2. Older(ws[f].unit, xs[f], r)
    BY <1>2 DEF Older
  <2> QED BY <1>4, <2>1, <2>2 DEF IsAccount, Older
<1>7. ASSUME NEW i \in 1 .. n + 1
      PROVE  /\ Older(q[i].unit, xs[q[i].format], r)
             /\ b.last[q[i].format] < q[i].unit
             /\ \A j \in 1 .. i - 1 : q[j].format = q[i].format => q[j].unit < q[i].unit
  <2>1. CASE i \in 1 .. n
    <3>1. \A j \in 1 .. i - 1 : q[j] = queue[j]
      BY <1>2, <1>4, <2>1
    <3> QED BY <1>1, <1>3, <1>4, <2>1, <3>1 DEF IsAccount
  <2>2. CASE i = n + 1
    <3>1. q[i].unit = ws[f].unit /\ q[i].format = f
      BY <1>4, <2>2
    <3>2. \A j \in 1 .. i - 1 : q[j] = queue[j] /\ j \in 1 .. n
      BY <1>2, <1>4, <2>2
    <3> QED BY <1>3, <1>6, <3>1, <3>2
  <2> QED BY <1>2, <2>1, <2>2
<1>8. b.given = b.called + b.discarded + Len(q) /\ Len(q) <= QueueSize
  <2>1. a.given = a.called + a.discarded + n
    BY DEF IsAccount, n
  <2> QED BY <1>2, <1>3, <1>4, <2>1 DEF n
<1>9. IsAccount(b, q, xs, r)
  BY <1>1, <1>3, <1>4, <1>7, <1>8 DEF IsAccount
<1> QED BY <1>9 DEF b, q

(* What a push does to the counters of an account.                         *)
LEMMA Counted ==
    ASSUME NEW a \in Accounts
    PROVE  /\ [a EXCEPT !.given = @ + 1] \in Accounts
           /\ [a EXCEPT !.given = @ + 1, !.discarded = @ + 1] \in Accounts
           /\ [a EXCEPT !.given = @ + 1, !.discarded = @ + 1].given = a.given + 1
           /\ [a EXCEPT !.given = @ + 1, !.discarded = @ + 1].discarded = a.discarded + 1
           /\ [a EXCEPT !.given = @ + 1, !.discarded = @ + 1].called = a.called
           /\ [a EXCEPT !.given = @ + 1, !.discarded = @ + 1].last = a.last
<1> DEFINE b == [a EXCEPT !.given = @ + 1]  c == [b EXCEPT !.discarded = @ + 1]
<1>1. b \in Accounts /\ b.given = a.given + 1 /\ b.discarded = a.discarded /\ b.called = a.called /\ b.last = a.last
  BY DEF Accounts
<1>2. c = [a EXCEPT !.given = @ + 1, !.discarded = @ + 1]
  BY DEF Accounts
<1>3. c \in Accounts /\ c.given = b.given /\ c.discarded = b.discarded + 1 /\ c.called = b.called /\ c.last = b.last
  <2> HIDE DEF b
  <2> QED BY <1>1 DEF Accounts
<1> HIDE DEF b, c
<1> QED BY <1>1, <1>2, <1>3 DEF b

LEMMA PushStep ==
    ASSUME UnitsInv, StreamInv', NEW f \in Formats, NEW r \in Readers, Str!Push(f, r)
    PROVE  UnitsInv'
<1> DEFINE queue == buffer[r].queue
           u == [format |-> f, unit |-> writer[f].unit]
<1>1. /\ writer \in Writers /\ writer' \in Writers
      /\ buffer \in [Readers -> [queue : Seq(Units), closed : BOOLEAN]] /\ account \in [Readers -> Accounts]
      /\ u \in Units
  BY DEF UnitsInv, StreamInv, StreamTypes, Writers, Units
<1>2. /\ writer[f].at = "writing" /\ r \in writer[f].todo /\ writer' = [writer EXCEPT ![f].todo = @ \ {r}]
      /\ UNCHANGED <<mutex, stats, reader, routine>>
  BY DEF Str!Push
<1>3. /\ \A g \in Formats : Goes(writer[g], writer'[g])
      /\ Pushes(writer[f], r) /\ ~Pushes(writer'[f], r) /\ writer'[f].unit = writer[f].unit
  <2>1. ASSUME NEW g \in Formats
        PROVE  /\ writer'[g].unit = writer[g].unit /\ writer'[g].at = writer[g].at /\ writer'[g].todo \subseteq writer[g].todo
               /\ g = f => r \notin writer'[g].todo
    BY <1>1, <1>2 DEF Writers
  <2> QED BY <1>2, <2>1 DEF Goes, Pushes
<1>4. ASSUME NEW o \in Readers PROVE IsAccount(account[o], buffer[o].queue, writer', o)
  BY <1>1, <1>3, AccountStays DEF UnitsInv
<1>5. ASSUME NEW a \in Accounts, account' = [account EXCEPT ![r] = a],
             NEW q \in Seq(Units), buffer' \in [Readers -> [queue : Seq(Units), closed : BOOLEAN]],
             buffer'[r].queue = q, \A o \in Readers \ {r} : buffer'[o] = buffer[o],
             IsAccount(a, q, writer', r)
      PROVE  UnitsInv'
  <2>1. account' \in [Readers -> Accounts] /\ account'[r] = a /\ \A o \in Readers \ {r} : account'[o] = account[o]
    BY <1>1, <1>5
  <2>2. ASSUME NEW o \in Readers PROVE IsAccount(account'[o], buffer'[o].queue, writer', o)
    BY <1>4, <1>5, <2>1
  <2> QED BY <1>2, <1>5, <2>1, <2>2 DEF UnitsInv
<1>6. CASE Len(queue) < QueueSize
  <2> DEFINE a == [account[r] EXCEPT !.given = @ + 1]  q == Append(queue, u)
  <2>1. account' = [account EXCEPT ![r] = a] /\ buffer' = [buffer EXCEPT ![r].queue = q]
    BY <1>1, <1>6 DEF Str!Push
  <2>0. account[r] \in Accounts /\ queue \in Seq(Units) /\ IsAccount(account[r], queue, writer, r)
    BY <1>1 DEF UnitsInv
  <2>2. a \in Accounts /\ q \in Seq(Units)
    <3>1. a \in Accounts
      BY <2>0, Counted
    <3> HIDE DEF u, queue
    <3> QED BY <1>1, <2>0, <3>1
  <2>3. IsAccount(a, q, writer', r)
    <3> HIDE DEF queue
    <3>1. IsAccount([account[r] EXCEPT !.given = @ + 1], Append(queue, [format |-> f, unit |-> writer[f].unit]), writer', r)
      BY <1>1, <1>3, <1>6, <2>0, AccountPushed, Zenon
    <3> QED BY <3>1
  <2> HIDE DEF a, q
  <2>4. /\ buffer' \in [Readers -> [queue : Seq(Units), closed : BOOLEAN]] /\ buffer'[r].queue = q
        /\ \A o \in Readers \ {r} : buffer'[o] = buffer[o]
    BY <1>1, <2>1, <2>2
  <2> QED BY <1>5, <2>1, <2>2, <2>3, <2>4
<1>7. CASE ~(Len(queue) < QueueSize)
  <2> DEFINE a == [account[r] EXCEPT !.given = @ + 1, !.discarded = @ + 1]
  <2>1. account' = [account EXCEPT ![r] = a] /\ buffer' = buffer
    BY <1>1, <1>7 DEF Str!Push
  <2>0. account[r] \in Accounts /\ queue \in Seq(Units) /\ IsAccount(account[r], queue, writer', r)
    BY <1>1, <1>4
  <2>2. a \in Accounts /\ queue \in Seq(Units)
    BY <2>0, Counted
  <2>3. IsAccount(a, queue, writer', r)
    <3>1. /\ a.given = account[r].given + 1 /\ a.discarded = account[r].discarded + 1 /\ a.called = account[r].called
          /\ a.last = account[r].last
      BY <2>0, Counted
    <3>2. account[r].given \in Nat /\ account[r].called \in Nat /\ account[r].discarded \in Nat /\ Len(queue) \in Nat
      BY <2>0 DEF Accounts
    <3> HIDE DEF a, queue
    <3>3. account[r].given = account[r].called + account[r].discarded + Len(queue) /\ Len(queue) <= QueueSize
      BY <2>0 DEF IsAccount
    <3>4. a.given = a.called + a.discarded + Len(queue)
      BY <3>1, <3>2, <3>3
    <3> QED BY <2>0, <3>1, <3>3, <3>4 DEF IsAccount
  <2> HIDE DEF a
  <2> QED BY <1>1, <1>5, <2>1, <2>2, <2>3
<1> QED BY <1>6, <1>7

(* The unit that is called back is the first one of the queue.             *)
LEMMA AccountPulled ==
    ASSUME NEW a \in Accounts, NEW queue \in Seq(Units), NEW ws \in Writers, NEW r \in Readers,
           IsAccount(a, queue, ws, r), queue # <<>>
    PROVE  /\ [a EXCEPT !.called = @ + 1, !.last[Head(queue).format] = Head(queue).unit] \in Accounts
           /\ Tail(queue) \in Seq(Units)
           /\ IsAccount([a EXCEPT !.called = @ + 1, !.last[Head(queue).format] = Head(queue).unit], Tail(queue), ws, r)
<1> DEFINE h == queue[1]
           b == [a EXCEPT !.called = @ + 1, !.last[Head(queue).format] = Head(queue).unit]
           after == [a.last EXCEPT ![h.format] = h.unit]
           q == Tail(queue)
           n == Len(queue)
<1>1. /\ n \in Nat /\ n > 0 /\ Head(queue) = h /\ h \in Units /\ DOMAIN queue = 1 .. n /\ Len(q) = n - 1 /\ DOMAIN q = 1 .. n - 1
      /\ \A i \in 1 .. n - 1 : q[i] = queue[i + 1]
      /\ q \in Seq(Units)
  OBVIOUS
<1>2. h.unit \in Nat /\ h.format \in Formats /\ a.last \in [Formats -> Nat] /\ a.called \in Nat
      /\ a.given \in Nat /\ a.discarded \in Nat /\ QueueSize \in Nat
  BY <1>1, MediaAssumption DEF Units, Accounts, Str!QueueAssumption
<1>3. after \in [Formats -> Nat] /\ after[h.format] = h.unit /\ \A g \in Formats \ {h.format} : after[g] = a.last[g]
  BY <1>2
<1>4. b = [a EXCEPT !.called = @ + 1, !.last = after]
  BY <1>1
<1> HIDE DEF after, b, h
<1>5. /\ b \in Accounts /\ b.given = a.given /\ b.called = a.called + 1 /\ b.discarded = a.discarded /\ b.last = after
  <2> DEFINE c == [a EXCEPT !.called = @ + 1]
  <2>1. c \in Accounts /\ c.given = a.given /\ c.called = a.called + 1 /\ c.discarded = a.discarded
    BY DEF Accounts
  <2>2. b = [c EXCEPT !.last = after]
    BY <1>4 DEF Accounts
  <2> HIDE DEF c
  <2> QED BY <1>3, <2>1, <2>2 DEF Accounts
<1>10. a.given = a.called + a.discarded + n /\ n <= QueueSize
  BY DEF IsAccount
<1> HIDE DEF q, n
<1>6. b.given = b.called + b.discarded + Len(q) /\ Len(q) <= QueueSize
  <2> DEFINE given == a.given  called == a.called  discarded == a.discarded
  <2>1. Len(q) = n - 1 /\ n \in Nat
    BY <1>1
  <2>2. given \in Nat /\ called \in Nat /\ discarded \in Nat /\ QueueSize \in Nat
        /\ given = called + discarded + n /\ n <= QueueSize
    BY <1>2, <1>10
  <2>3. b.given = given /\ b.called = called + 1 /\ b.discarded = discarded
    BY <1>5
  <2> HIDE DEF given, called, discarded
  <2>4. given = (called + 1) + discarded + (n - 1) /\ n - 1 <= QueueSize
    BY <2>1, <2>2
  <2> QED BY <2>1, <2>3, <2>4
<1>7. \A f \in Formats : Older(after[f], ws[f], r)
  <2>1. Older(h.unit, ws[h.format], r)
    BY <1>1 DEF IsAccount, h
  <2> QED BY <1>3, <2>1 DEF IsAccount
<1>8. ASSUME NEW i \in 1 .. n - 1
      PROVE  /\ Older(q[i].unit, ws[q[i].format], r)
             /\ after[q[i].format] < q[i].unit
             /\ \A j \in 1 .. i - 1 : q[j].format = q[i].format => q[j].unit < q[i].unit
  <2> DEFINE k == i + 1
  <2>1. k \in 1 .. n /\ k \in DOMAIN queue /\ q[i] = queue[k] /\ 1 \in 1 .. k - 1
    BY <1>1
  <2>2. /\ Older(queue[k].unit, ws[queue[k].format], r) /\ a.last[queue[k].format] < queue[k].unit
        /\ \A j \in 1 .. k - 1 : queue[j].format = queue[k].format => queue[j].unit < queue[k].unit
    BY <2>1 DEF IsAccount
  <2>3. queue[k] \in Units
    BY <2>1
  <2>4. after[queue[k].format] < queue[k].unit
    BY <1>2, <1>3, <2>1, <2>2, <2>3 DEF h, Units
  <2>5. ASSUME NEW j \in 1 .. i - 1, q[j].format = q[i].format PROVE q[j].unit < q[i].unit
    <3>1. j + 1 \in 1 .. k - 1 /\ q[j] = queue[j + 1]
      BY <1>1
    <3> QED BY <2>1, <2>2, <2>5, <3>1
  <2> QED BY <2>1, <2>2, <2>4, <2>5
<1>9. IsAccount(b, q, ws, r)
  BY <1>1, <1>5, <1>6, <1>7, <1>8 DEF IsAccount
<1> QED BY <1>1, <1>5, <1>9 DEF b, q

LEMMA PullStep ==
    ASSUME UnitsInv, StreamInv', NEW r \in Readers, Str!PullUnit(r)
    PROVE  UnitsInv'
<1> DEFINE queue == buffer[r].queue  q == Tail(queue)
           a == [account[r] EXCEPT !.called = @ + 1, !.last[Head(queue).format] = Head(queue).unit]
<1>1. /\ writer \in Writers
      /\ buffer \in [Readers -> [queue : Seq(Units), closed : BOOLEAN]] /\ account \in [Readers -> Accounts]
  BY DEF UnitsInv, StreamInv, StreamTypes, Writers
<1>2. /\ queue # <<>> /\ buffer' = [buffer EXCEPT ![r].queue = q] /\ account' = [account EXCEPT ![r] = a]
      /\ UNCHANGED <<mutex, writer, stats, reader>>
  BY <1>1 DEF Str!PullUnit
<1>3. a \in Accounts /\ q \in Seq(Units) /\ IsAccount(a, q, writer, r)
  BY <1>1, <1>2, AccountPulled DEF UnitsInv
<1> HIDE DEF a, q
<1>4. /\ account' \in [Readers -> Accounts] /\ account'[r] = a /\ \A o \in Readers \ {r} : account'[o] = account[o]
      /\ buffer' \in [Readers -> [queue : Seq(Units), closed : BOOLEAN]] /\ buffer'[r].queue = q
      /\ \A o \in Readers \ {r} : buffer'[o] = buffer[o]
  BY <1>1, <1>2, <1>3
<1>5. ASSUME NEW o \in Readers PROVE IsAccount(account'[o], buffer'[o].queue, writer', o)
  BY <1>2, <1>3, <1>4 DEF UnitsInv
<1> QED BY <1>2, <1>4, <1>5 DEF UnitsInv

LEMMA UnitsStep ==
    ASSUME UnitsInv, Str!StreamNext
    PROVE  UnitsInv'
<1>0. StreamInv'
  BY StreamStep DEF UnitsInv
<1>1. writer \in Writers /\ writer' \in Writers /\ buffer \in [Readers -> [queue : Seq(Units), closed : BOOLEAN]]
      /\ stats \in {"idle", "waiting"}
  BY <1>0 DEF UnitsInv, StreamInv, StreamTypes, Writers
<1>2. \A f \in Formats : Goes(writer[f], writer[f])
  BY DEF Goes
<1>3. ASSUME UNCHANGED <<buffer, account, writer>>, stats' \in {"idle", "waiting"} PROVE UnitsInv'
  BY <1>0, <1>1, <1>2, <1>3, UnitsLeft
<1>4. ASSUME NEW f \in Formats, Str!WriteBegins(f) \/ Str!WriteLocked(f) \/ Str!WriteReturns(f)
      PROVE  UnitsInv'
  <2>1. UNCHANGED <<buffer, account, stats>> /\ \A g \in Formats \ {f} : writer'[g] = writer[g]
    BY <1>1, <1>4 DEF Str!WriteBegins, Str!WriteLocked, Str!WriteReturns, Writers
  <2>2. Goes(writer[f], writer'[f])
    <3>1. CASE Str!WriteBegins(f)
      BY <1>1, <3>1 DEF Str!WriteBegins, Goes, Writers
    <3>2. CASE Str!WriteLocked(f)
      BY <1>1, <3>2 DEF Str!WriteLocked, Goes, Pushes, Writers
    <3>3. CASE Str!WriteReturns(f)
      BY <1>1, <3>3 DEF Str!WriteReturns, Goes, Pushes, Writers
    <3> QED BY <1>4, <3>1, <3>2, <3>3
  <2>3. \A g \in Formats : Goes(writer[g], writer'[g])
    BY <1>2, <2>1, <2>2
  <2> QED BY <1>0, <1>1, <2>1, <2>3, UnitsLeft
<1>5. CASE Str!BytesSent \/ Str!BytesSentReturns
  BY <1>3, <1>5 DEF Str!BytesSent, Str!BytesSentReturns
<1>6. ASSUME NEW r \in Readers,
             Str!AddReader(r) \/ Str!AddReaderReturns(r) \/ Str!ErrorTaken(r) \/ Str!RemoveReader(r)
                 \/ Str!RemoveReaderReturns(r) \/ Str!PullClosed(r) \/ Str!CallbackReturns(r)
      PROVE  UnitsInv'
  BY <1>1, <1>3, <1>6 DEF Str!AddReader, Str!AddReaderReturns, Str!ErrorTaken, Str!RemoveReader, Str!RemoveReaderReturns,
     Str!PullClosed, Str!CallbackReturns
<1>7. ASSUME NEW r \in Readers, Str!Stop(r) PROVE UnitsInv'
  <2>1. buffer' = [buffer EXCEPT ![r].closed = TRUE] /\ UNCHANGED <<writer, stats, account>>
    BY <1>7 DEF Str!Stop
  <2>2. buffer' \in [Readers -> [queue : Seq(Units), closed : BOOLEAN]] /\ \A o \in Readers : buffer'[o].queue = buffer[o].queue
    BY <1>1, <2>1
  <2> QED BY <1>0, <1>1, <1>2, <2>1, <2>2, UnitsLeft
<1> QED BY <1>0, <1>4, <1>5, <1>6, <1>7, PushStep, PullStep
        DEF Str!StreamNext, Str!WriterGoesOn, Str!OwnerGoesOn, Str!RoutineGoesOn

LEMMA UnitsCount == UnitsInv => Str!StreamTypeOK /\ \A r \in Readers : Str!EveryUnitCounts(r)
<1> SUFFICES ASSUME UnitsInv PROVE Str!StreamTypeOK /\ \A r \in Readers : Str!EveryUnitCounts(r)
  OBVIOUS
<1>1. ASSUME NEW r \in Readers PROVE Str!EveryUnitCounts(r) /\ Len(buffer[r].queue) <= QueueSize /\ buffer[r].closed \in BOOLEAN
  BY DEF UnitsInv, IsAccount, Str!EveryUnitCounts
<1> QED BY <1>1 DEF UnitsInv, StreamInv, StreamTypes, Str!StreamTypeOK

-----------------------------------------------------------------------------
(* The content of NALUs: pictures, without parameters and delimiters.      *)

Pictures == {"key", "other"}
Grows(s, g, i) == g[i] = IF s[i].type \in Pictures THEN Append(g[i - 1], s[i]) ELSE g[i - 1]
IsContent(s, g, n) == g[0] = <<>> /\ \A i \in 1 .. n : Grows(s, g, i)

(* There is such a function, and so the recursive one is one.              *)
LEMMA ContentExists ==
    ASSUME NEW s, Len(s) \in Nat
    PROVE  \E g : g = [i \in 0 .. Len(s) |->
                         IF i = 0 THEN <<>>
                         ELSE IF s[i].type \in {"key", "other"} THEN Append(g[i - 1], s[i]) ELSE g[i - 1]]
<1> DEFINE IsUpTo(n, g) == g = [i \in 0 .. n |-> IF i = 0 THEN <<>>
                                ELSE IF s[i].type \in {"key", "other"} THEN Append(g[i - 1], s[i]) ELSE g[i - 1]]
           Missing == {n \in Nat : ~ \E g : IsUpTo(n, g)}
<1>1. Missing = {}
  <2> SUFFICES ASSUME Missing # {} PROVE FALSE
    OBVIOUS
  <2>1. PICK n \in Missing : \A x \in Missing : n <= x
    <3>1. Missing \in SUBSET Nat
      OBVIOUS
    <3> HIDE DEF Missing
    <3> QED BY <3>1, SmallestIsThere
  <2>2. n # 0
    <3>1. IsUpTo(0, [i \in 0 .. 0 |-> <<>>])
      OBVIOUS
    <3> QED BY <3>1
  <2>3. PICK g : IsUpTo(n - 1, g)
    <3>1. n - 1 \in Nat /\ ~(n <= n - 1)
      BY <2>2
    <3> QED BY <2>1, <3>1
  <2> DEFINE e == IF s[n].type \in {"key", "other"} THEN Append(g[n - 1], s[n]) ELSE g[n - 1]
             h == [i \in 0 .. n |-> IF i = n THEN e ELSE g[i]]
  <2>4. ASSUME NEW i \in 0 .. n
        PROVE  h[i] = IF i = 0 THEN <<>>
                      ELSE IF s[i].type \in {"key", "other"} THEN Append(h[i - 1], s[i]) ELSE h[i - 1]
    <3>1. CASE i = n
      <4>1. h[i] = e /\ h[i - 1] = g[n - 1] /\ i # 0
        BY <2>2, <3>1
      <4> HIDE DEF h
      <4> QED BY <3>1, <4>1
    <3>2. CASE i # n
      <4>1. i \in 0 .. n - 1 /\ h[i] = g[i]
        BY <3>2
      <4>2. i # 0 => h[i - 1] = g[i - 1]
        BY <3>2
      <4> HIDE DEF h, e
      <4> QED BY <2>3, <4>1, <4>2
    <3> QED BY <3>1, <3>2
  <2>5. IsUpTo(n, h)
    <3>1. h = [i \in 0 .. n |-> h[i]]
      OBVIOUS
    <3> HIDE DEF h
    <3> QED BY <2>4, <3>1
  <2> QED BY <2>1, <2>5
<1>2. \E g : IsUpTo(Len(s), g)
  BY <1>1
<1> QED BY <1>2

LEMMA ContentIs ==
    ASSUME NEW s, Len(s) \in Nat
    PROVE  IsContent(s, Pro!ContentUpTo(s), Len(s))
<1> DEFINE g == Pro!ContentUpTo(s)
<1>1. g = [i \in 0 .. Len(s) |-> IF i = 0 THEN <<>>
             ELSE IF s[i].type \in {"key", "other"} THEN Append(g[i - 1], s[i]) ELSE g[i - 1]]
  BY ContentExists DEF Pro!ContentUpTo
<1> HIDE DEF g
<1>2. g[0] = <<>>
  BY <1>1
<1>3. \A i \in 1 .. Len(s) : Grows(s, g, i)
  <2> TAKE i \in 1 .. Len(s)
  <2>1. i \in 0 .. Len(s) /\ i # 0
    OBVIOUS
  <2> QED BY <1>1, <2>1 DEF Grows, Pictures
<1> QED BY <1>2, <1>3 DEF g, IsContent

(* What follows after d of them.                                           *)
IsPart(X, t, s, d) ==
    /\ s \in Seq(X) /\ t \in Seq(X) /\ d \in Nat
    /\ d + Len(t) <= Len(s) /\ \A i \in 1 .. Len(t) : s[d + i] = t[i]

LEMMA ContentTypes ==
    ASSUME NEW X, NEW s \in Seq(X)
    PROVE  \A n \in 0 .. Len(s) : Pro!ContentUpTo(s)[n] \in Seq(X)
<1> DEFINE g == Pro!ContentUpTo(s)
           Bad == {n \in Nat : n <= Len(s) /\ ~(g[n] \in Seq(X))}
<1>1. IsContent(s, g, Len(s)) /\ Len(s) \in Nat /\ <<>> \in Seq(X)
  BY ContentIs
<1> HIDE DEF g
<1> SUFFICES ASSUME Bad # {} PROVE FALSE
  BY <1>1 DEF g
<1>2. PICK n \in Bad : \A x \in Bad : n <= x
  <2>1. Bad \in SUBSET Nat
    OBVIOUS
  <2> HIDE DEF Bad
  <2> QED BY <2>1, SmallestIsThere
<1>3. n # 0
  BY <1>1 DEF IsContent
<1>4. g[n - 1] \in Seq(X)
  <2>1. n - 1 \in Nat /\ n - 1 <= Len(s) /\ ~(n <= n - 1)
    BY <1>1, <1>3
  <2> QED BY <1>2, <2>1
<1>5. Grows(s, g, n) /\ s[n] \in X
  BY <1>1, <1>3 DEF IsContent
<1>6. g[n] \in Seq(X)
  <2> HIDE DEF Bad
  <2> QED BY <1>4, <1>5 DEF Grows
<1> QED BY <1>6

(* It adds its own content.                                                *)
Adds(t, s, d) ==
    \A n \in 0 .. Len(t) : Pro!ContentUpTo(s)[d + n] = Pro!ContentUpTo(s)[d] \o Pro!ContentUpTo(t)[n]
LEMMA ContentGoesOn ==
    ASSUME NEW X, NEW s, NEW t, NEW d, IsPart(X, t, s, d)
    PROVE  Adds(t, s, d)
<1> DEFINE g == Pro!ContentUpTo(s)
           h == Pro!ContentUpTo(t)
           Bad == {n \in Nat : n <= Len(t) /\ ~(g[d + n] = g[d] \o h[n])}
<1>0. s \in Seq(X) /\ t \in Seq(X) /\ d \in Nat /\ Len(s) \in Nat /\ Len(t) \in Nat
  BY DEF IsPart
<1>1. IsContent(s, g, Len(s)) /\ IsContent(t, h, Len(t)) /\ Len(s) \in Nat /\ Len(t) \in Nat /\ d \in Nat
  BY <1>0, ContentIs
<1>2. /\ \A n \in 0 .. Len(s) : g[n] \in Seq(X)
      /\ \A n \in 0 .. Len(t) : h[n] \in Seq(X)
  BY <1>0, ContentTypes
<1> HIDE DEF g, h
<1> SUFFICES ASSUME Bad # {} PROVE FALSE
  <2>1. ASSUME Bad = {}, NEW n \in 0 .. Len(t) PROVE g[d + n] = g[d] \o h[n]
    <3>1. n \in Nat /\ n <= Len(t)
      BY <1>1
    <3> QED BY <2>1, <3>1
  <2> QED BY <2>1 DEF g, h, Adds
<1>3. PICK n \in Bad : \A x \in Bad : n <= x
  <2>1. Bad \in SUBSET Nat
    OBVIOUS
  <2> HIDE DEF Bad
  <2> QED BY <2>1, SmallestIsThere
<1>4. n # 0
  <2>1. d \in 0 .. Len(s)
    BY <1>1 DEF IsPart
  <2>2. g[d] \in Seq(X) /\ h[0] = <<>>
    BY <1>1, <1>2, <2>1 DEF IsContent
  <2>3. g[d] \o <<>> = g[d]
    <3> DEFINE p == g[d]
    <3>1. p \in Seq(X)
      BY <2>2
    <3> HIDE DEF p
    <3>2. p \o <<>> = p
      BY <3>1
    <3> QED BY <3>2 DEF p
  <2>4. d + 0 = d
    BY <1>0
  <2>5. ASSUME n = 0 PROVE FALSE
    BY <1>3, <2>2, <2>3, <2>4, <2>5
  <2> QED BY <2>5
<1>5. g[d + (n - 1)] = g[d] \o h[n - 1]
  <2>1. n - 1 \in Nat /\ n - 1 <= Len(t) /\ ~(n <= n - 1)
    BY <1>1, <1>4
  <2> QED BY <1>3, <2>1
<1>6. /\ Grows(s, g, d + n) /\ Grows(t, h, n) /\ s[d + n] = t[n] /\ (d + n) - 1 = d + (n - 1)
      /\ t[n] \in X /\ g[d] \in Seq(X) /\ h[n - 1] \in Seq(X)
  <2>1. n \in 1 .. Len(t) /\ d + n \in 1 .. Len(s) /\ d \in 0 .. Len(s) /\ n - 1 \in 0 .. Len(t) /\ (d + n) - 1 = d + (n - 1)
    BY <1>1, <1>4 DEF IsPart
  <2> QED BY <1>1, <1>2, <2>1 DEF IsContent, IsPart
<1> DEFINE p == g[d]  q == h[n - 1]  e == t[n]
<1>7. p \o Append(q, e) = Append(p \o q, e)
  <2>1. p \in Seq(X) /\ q \in Seq(X) /\ e \in X
    BY <1>6
  <2> HIDE DEF p, q, e
  <2> QED BY <2>1
<1>8. g[d + n] = IF e.type \in Pictures THEN Append(p \o q, e) ELSE p \o q
  BY <1>5, <1>6 DEF Grows
<1>9. h[n] = IF e.type \in Pictures THEN Append(q, e) ELSE q
  BY <1>6 DEF Grows
<1> HIDE DEF q, e
<1> QED BY <1>7, <1>8, <1>9

(* Content is that of one part, and that of the other one.                 *)
Joins(s, t) == Pro!Content(s \o t) = Pro!Content(s) \o Pro!Content(t)
LEMMA ContentJoined ==
    ASSUME NEW X, NEW s \in Seq(X), NEW t \in Seq(X)
    PROVE  /\ s \o t \in Seq(X) /\ Pro!Content(s) \in Seq(X) /\ Pro!Content(t) \in Seq(X)
           /\ Joins(s, t)
<1> DEFINE u == s \o t  m == Len(s)  n == Len(t)
<1>1. /\ u \in Seq(X) /\ m \in Nat /\ n \in Nat /\ Len(u) = m + n
      /\ IsPart(X, s, u, 0) /\ IsPart(X, t, u, m)
  BY DEF IsPart
<1> HIDE DEF u
<1>2. Pro!ContentUpTo(u)[0 + m] = Pro!ContentUpTo(u)[0] \o Pro!ContentUpTo(s)[m]
  <2>1. m \in 0 .. Len(s)
    BY <1>1
  <2> HIDE DEF m
  <2>2. IsPart(X, s, u, 0)
    BY <1>1
  <2>3. Adds(s, u, 0)
    BY <2>2, ContentGoesOn
  <2> QED BY <2>1, <2>3 DEF Adds
<1>3. Pro!ContentUpTo(u)[m + n] = Pro!ContentUpTo(u)[m] \o Pro!ContentUpTo(t)[n]
  <2>1. n \in 0 .. Len(t)
    BY <1>1
  <2> HIDE DEF m, n
  <2>2. IsPart(X, t, u, m)
    BY <1>1
  <2>3. Adds(t, u, m)
    BY <2>2, ContentGoesOn
  <2> QED BY <2>1, <2>3 DEF Adds
<1>4. Pro!ContentUpTo(s)[m] \in Seq(X) /\ Pro!ContentUpTo(t)[n] \in Seq(X)
  BY <1>1, ContentTypes
<1>5. Pro!ContentUpTo(u)[0] = <<>>
  BY <1>1, ContentIs DEF IsContent
<1>6. Pro!ContentUpTo(u)[m] = Pro!ContentUpTo(s)[m]
  BY <1>1, <1>2, <1>4, <1>5
<1> QED BY <1>1, <1>3, <1>4, <1>6 DEF Pro!Content, u, Joins

LEMMA ContentOfNone == Pro!Content(<<>>) = <<>>
<1>1. Len(<<>>) = 0 /\ Len(<<>>) \in Nat
  OBVIOUS
<1> QED BY <1>1, ContentIs DEF Pro!Content, IsContent

LEMMA ContentOfOne ==
    ASSUME NEW e
    PROVE  Pro!Content(<<e>>) = IF e.type \in Pictures THEN <<e>> ELSE <<>>
<1> DEFINE s == <<e>>
<1>1. Len(s) \in Nat /\ Len(s) = 1 /\ s[1] = e /\ Append(<<>>, e) = s
  OBVIOUS
<1>2. IsContent(s, Pro!ContentUpTo(s), 1)
  <2> HIDE DEF s
  <2>1. IsContent(s, Pro!ContentUpTo(s), Len(s))
    BY <1>1, ContentIs
  <2> QED BY <1>1, <2>1
<1> HIDE DEF s
<1>3. Pro!ContentUpTo(s)[0] = <<>> /\ Grows(s, Pro!ContentUpTo(s), 1) /\ 1 - 1 = 0
  BY <1>2 DEF IsContent
<1>4. Pro!Content(s) = IF e.type \in Pictures THEN s ELSE <<>>
  BY <1>1, <1>3 DEF Grows, Pro!Content
<1> QED BY <1>4 DEF s

(* All of it is content.                                                   *)
LEMMA ContentOfContent ==
    ASSUME NEW X, NEW s \in Seq(X)
    PROVE  Pro!Content(Pro!Content(s)) = Pro!Content(s)
<1> DEFINE g == Pro!ContentUpTo(s)
           Bad == {n \in Nat : n <= Len(s) /\ ~(Pro!Content(g[n]) = g[n])}
<1>1. IsContent(s, g, Len(s)) /\ Len(s) \in Nat
  BY ContentIs
<1>2. \A n \in 0 .. Len(s) : g[n] \in Seq(X)
  BY ContentTypes
<1> HIDE DEF g
<1> SUFFICES ASSUME Bad # {} PROVE FALSE
  BY <1>1 DEF g, Pro!Content
<1>3. PICK n \in Bad : \A x \in Bad : n <= x
  <2>1. Bad \in SUBSET Nat
    OBVIOUS
  <2> HIDE DEF Bad
  <2> QED BY <2>1, SmallestIsThere
<1>4. n # 0
  BY <1>1, ContentOfNone DEF IsContent
<1>5. Pro!Content(g[n - 1]) = g[n - 1]
  <2>1. n - 1 \in Nat /\ n - 1 <= Len(s) /\ ~(n <= n - 1)
    BY <1>1, <1>4
  <2> QED BY <1>3, <2>1
<1> DEFINE e == s[n]  q == g[n - 1]
<1>6. g[n] = (IF e.type \in Pictures THEN Append(q, e) ELSE q) /\ e \in X /\ q \in Seq(X)
  <2>1. n \in 1 .. Len(s) /\ n - 1 \in 0 .. Len(s)
    BY <1>1, <1>4
  <2> QED BY <1>1, <1>2, <2>1 DEF IsContent, Grows
<1>7. Pro!Content(q) = q
  BY <1>5
<1> HIDE DEF e, q
<1>8. Append(q, e) = q \o <<e>> /\ <<e>> \in Seq(X)
  BY <1>6
<1>9. CASE e.type \in Pictures
  <2>1. Pro!Content(q \o <<e>>) = Pro!Content(q) \o Pro!Content(<<e>>)
    BY <1>6, <1>8, ContentJoined DEF Joins
  <2>2. Pro!Content(<<e>>) = <<e>>
    BY <1>9, ContentOfOne
  <2> QED BY <1>6, <1>7, <1>8, <1>9, <2>1, <2>2
<1>10. CASE ~(e.type \in Pictures)
  BY <1>6, <1>7, <1>10
<1> QED BY <1>9, <1>10

(* Nothing of it is content.                                               *)
LEMMA NoContent ==
    ASSUME NEW X, NEW s \in Seq(X), \A i \in 1 .. Len(s) : s[i].type \notin Pictures
    PROVE  Pro!Content(s) = <<>>
<1> DEFINE g == Pro!ContentUpTo(s)
           Bad == {n \in Nat : n <= Len(s) /\ ~(g[n] = <<>>)}
<1>1. IsContent(s, g, Len(s)) /\ Len(s) \in Nat
  BY ContentIs
<1> HIDE DEF g
<1> SUFFICES ASSUME Bad # {} PROVE FALSE
  BY <1>1 DEF g, Pro!Content
<1>3. PICK n \in Bad : \A x \in Bad : n <= x
  <2>1. Bad \in SUBSET Nat
    OBVIOUS
  <2> HIDE DEF Bad
  <2> QED BY <2>1, SmallestIsThere
<1>4. n # 0
  BY <1>1 DEF IsContent
<1>5. g[n - 1] = <<>>
  <2>1. n - 1 \in Nat /\ n - 1 <= Len(s) /\ ~(n <= n - 1)
    BY <1>1, <1>4
  <2> QED BY <1>3, <2>1
<1>6. n \in 1 .. Len(s)
  BY <1>1, <1>4
<1> QED BY <1>1, <1>5, <1>6 DEF IsContent, Grows

(* A NALU of the content is one of the NALUs.                              *)
LEMMA ContentFrom ==
    ASSUME NEW X, NEW s \in Seq(X), NEW k, Pro!Has(Pro!Content(s), k)
    PROVE  Pro!Has(s, k)
<1> DEFINE Y == {s[i] : i \in 1 .. Len(s)}
<1>1. s \in Seq(Y) /\ DOMAIN s = 1 .. Len(s)
  OBVIOUS
<1>2. Pro!Content(s) \in Seq(Y)
  <2>1. Len(s) \in Nat /\ Len(s) \in 0 .. Len(s)
    OBVIOUS
  <2> HIDE DEF Y
  <2> QED BY <1>1, <2>1, ContentTypes DEF Pro!Content
<1>3. PICK j \in DOMAIN Pro!Content(s) : Pro!Content(s)[j].type = k
  BY DEF Pro!Has
<1>4. Pro!Content(s)[j] \in Y
  <2> HIDE DEF Y
  <2> QED BY <1>2, <1>3
<1>5. PICK i \in 1 .. Len(s) : Pro!Content(s)[j] = s[i]
  BY <1>4
<1> QED BY <1>1, <1>3, <1>5 DEF Pro!Has

-----------------------------------------------------------------------------
(* The processor of a format.                                              *)

Highest(p) == IF p \in {"pps", "config"} THEN MaxParameters ELSE 1
VersionSet == {v \in [Pro!ToSet(Pro!Parameters) -> Nat] : \A p \in Pro!ToSet(Pro!Parameters) : v[p] <= Highest(p)}

LEMMA ParametersAre ==
    ASSUME codec \in Codecs
    PROVE  /\ Pro!Parameters \in Seq(Pro!ToSet(Pro!Parameters))
           /\ Pro!ToSet(Pro!Parameters) \subseteq {"vps", "sps", "pps", "config"}
<1>1. codec \in {"h264", "h265", "mpeg4Video", "av1"}
  BY MediaAssumption DEF Pro!ProcessorAssumption
<1> DEFINE P == Pro!Parameters
<1>2. P \in Seq({"vps", "sps", "pps", "config"})
  <2>1. CASE codec = "h264"
    BY <2>1 DEF Pro!Parameters, Pro!ParametersOf
  <2>2. CASE codec = "h265"
    BY <2>2 DEF Pro!Parameters, Pro!ParametersOf
  <2>3. CASE codec = "mpeg4Video"
    BY <2>3 DEF Pro!Parameters, Pro!ParametersOf
  <2>4. CASE codec = "av1"
    BY <2>4 DEF Pro!Parameters, Pro!ParametersOf
  <2> QED BY <1>1, <2>1, <2>2, <2>3, <2>4
<1> HIDE DEF P
<1> QED BY <1>2 DEF P, Pro!ToSet

LEMMA NALUsAre ==
    ASSUME codec \in Codecs
    PROVE  /\ \A n \in Pro!NALUs : n.type \in Pro!ToSet(Pro!Parameters) => n.version \in 1 .. Highest(n.type)
           /\ \A p \in Pro!ToSet(Pro!Parameters) : \A v \in 1 .. Highest(p) : Pro!NALU(p, v) \in Pro!NALUs
           /\ \A p \in {"pps", "sps", "vps", "config"} : Highest(p) \in 1 .. MaxParameters
           /\ MaxParameters \in Nat \ {0}
<1>1. MaxParameters \in Nat \ {0}
  BY MediaAssumption DEF Pro!ProcessorAssumption
<1>2. Pro!ToSet(Pro!Parameters) \subseteq {"vps", "sps", "pps", "config"}
  BY ParametersAre
<1>3. \A p \in {"pps", "sps", "vps", "config"} : Highest(p) \in 1 .. MaxParameters
  BY <1>1 DEF Highest
<1> DEFINE P == Pro!ToSet(Pro!Parameters)
           Of(p) == {Pro!NALU(p, v) : v \in 1 .. Highest(p)}
<1> HIDE DEF P
<1>4. /\ \A n \in Pro!NALUs : n.type \in {"key", "other", "delimiter"} \/ \E p \in P : n \in Of(p)
      /\ \A p \in P : Of(p) \subseteq Pro!NALUs
  <2> DEFINE D == IF codec = "mpeg4Video" THEN {} ELSE {Pro!NALU("delimiter", 0)}
  <2>1. Pro!NALUs = {Pro!NALU("key", 0), Pro!NALU("other", 0)} \cup D \cup UNION {Of(p) : p \in P}
    BY DEF P, Pro!NALUs, Highest, Pro!Changing
  <2>2. \A n \in D \cup {Pro!NALU("key", 0), Pro!NALU("other", 0)} : n.type \in {"key", "other", "delimiter"}
    BY DEF Pro!NALU
  <2> HIDE DEF D, Of
  <2> QED BY <2>1, <2>2
<1>5. ASSUME NEW n \in Pro!NALUs, n.type \in P PROVE n.version \in 1 .. Highest(n.type)
  <2>1. n.type \notin {"key", "other", "delimiter"}
    BY <1>2, <1>5 DEF P
  <2>2. PICK p \in P : n \in Of(p)
    BY <1>4, <2>1
  <2>3. PICK v \in 1 .. Highest(p) : n = Pro!NALU(p, v)
    BY <2>2
  <2> QED BY <2>3 DEF Pro!NALU
<1>6. ASSUME NEW p \in P, NEW v \in 1 .. Highest(p) PROVE Pro!NALU(p, v) \in Pro!NALUs
  BY <1>4
<1> QED BY <1>1, <1>3, <1>5, <1>6 DEF P

LEMMA NoticedIs ==
    ASSUME codec \in Codecs, NEW v \in VersionSet, NEW nalus \in Seq(Pro!NALUs)
    PROVE  Pro!Noticed(v, nalus) \in VersionSet
<1> DEFINE P == Pro!ToSet(Pro!Parameters)
           C(p) == CHOOSE n \in Pro!ToSet(nalus) : n.type = p
           w == Pro!Noticed(v, nalus)
<1>1. /\ v \in [P -> Nat] /\ \A p \in P : v[p] <= Highest(p)
  BY DEF VersionSet
<1>2. w = [p \in P |-> IF Pro!Has(nalus, p) THEN C(p).version ELSE v[p]]
  <2>1. DOMAIN v = P
    BY <1>1
  <2> HIDE DEF P
  <2> QED BY <2>1 DEF Pro!Noticed
<1>3. ASSUME NEW p \in P, Pro!Has(nalus, p) PROVE C(p).version \in 1 .. Highest(p)
  <2>1. C(p) \in Pro!ToSet(nalus) /\ C(p).type = p
    BY <1>3 DEF Pro!Has, Pro!ToSet
  <2>2. C(p) \in Pro!NALUs
    <3> HIDE DEF C
    <3> QED BY <2>1 DEF Pro!ToSet
  <2> HIDE DEF C, P
  <2> QED BY <2>1, <2>2, NALUsAre DEF P
<1>4. \A p \in P : Highest(p) \in Nat
  BY NALUsAre, ParametersAre
<1> HIDE DEF C, w, P
<1>5. ASSUME NEW p \in P PROVE w[p] \in Nat /\ w[p] <= Highest(p)
  <2>1. Highest(p) \in Nat
    BY <1>4
  <2>2. CASE Pro!Has(nalus, p)
    BY <1>2, <1>3, <2>1, <2>2
  <2>3. CASE ~Pro!Has(nalus, p)
    BY <1>1, <1>2, <2>3
  <2> QED BY <2>2, <2>3
<1>6. w \in [P -> Nat]
  <2>1. w = [p \in P |-> w[p]]
    BY <1>2
  <2> QED BY <1>5, <2>1
<1> QED BY <1>5, <1>6 DEF VersionSet, P, w

LEMMA InFrontIs ==
    ASSUME codec \in Codecs, NEW v \in VersionSet, Pro!Complete(v)
    PROVE  /\ Pro!InFront(v) \in Seq(Pro!NALUs)
           /\ \A i \in 1 .. Len(Pro!InFront(v)) : Pro!InFront(v)[i].type \in Pro!ToSet(Pro!Parameters)
<1> DEFINE P == Pro!Parameters
           s == Pro!InFront(v)
           N == Pro!NALUs
<1>1. P \in Seq(Pro!ToSet(P)) /\ Pro!ToSet(P) \subseteq {"vps", "sps", "pps", "config"}
  BY ParametersAre
<1>2. v \in [Pro!ToSet(P) -> Nat] /\ \A p \in Pro!ToSet(P) : v[p] <= Highest(p) /\ v[p] # 0 /\ Highest(p) \in Nat
  BY <1>1, NALUsAre DEF VersionSet, Pro!Complete
<1>3. s = [i \in 1 .. Len(P) |-> Pro!NALU(P[i], v[P[i]])] /\ Len(P) \in Nat
  BY <1>1 DEF Pro!InFront
<1>4. \A p \in Pro!ToSet(P) : Pro!NALU(p, v[p]) \in N /\ Pro!NALU(p, v[p]).type = p
  <2> TAKE p \in Pro!ToSet(P)
  <2>1. v[p] \in 1 .. Highest(p)
    BY <1>2
  <2>2. Pro!NALU(p, v[p]) \in N
    BY <2>1, NALUsAre
  <2> QED BY <2>2 DEF Pro!NALU
<1>5. \A i \in 1 .. Len(P) : P[i] \in Pro!ToSet(P)
  BY <1>1
<1> HIDE DEF P, s, N
<1>6. \A i \in 1 .. Len(P) : s[i] \in N /\ s[i].type \in Pro!ToSet(P)
  BY <1>3, <1>4, <1>5
<1>7. s \in Seq(N) /\ Len(s) = Len(P)
  BY <1>3, <1>6
<1> QED BY <1>6, <1>7 DEF P, s, N

LEMMA RemuxIs ==
    ASSUME codec \in Codecs, NEW v \in VersionSet, NEW nalus \in Seq(Pro!NALUs)
    PROVE  /\ Pro!Remux(nalus, v) \in Seq(Pro!NALUs)
           /\ Pro!Content(Pro!Remux(nalus, v)) = Pro!Content(nalus)
           /\ Pro!Has(Pro!Remux(nalus, v), "key") /\ Pro!Complete(v) => Pro!IsPrefix(Pro!InFront(v), Pro!Remux(nalus, v))
<1> DEFINE N == Pro!NALUs
           c == Pro!Content(nalus)
           f == Pro!InFront(v)
           r == Pro!Remux(nalus, v)
<1>1. c \in Seq(N) /\ Pro!Content(c) = c
  BY ContentJoined, ContentOfContent
<1>2. CASE Pro!Has(nalus, "key") /\ Pro!Complete(v)
  <2>1. r = f \o c
    BY <1>2 DEF Pro!Remux
  <2>2. f \in Seq(N) /\ \A i \in 1 .. Len(f) : f[i].type \in Pro!ToSet(Pro!Parameters)
    BY <1>2, InFrontIs
  <2>3. Pro!Content(f) = <<>>
    <3>1. \A i \in 1 .. Len(f) : f[i].type \notin Pictures
      BY <2>2, ParametersAre DEF Pictures
    <3> HIDE DEF f, N
    <3> QED BY <2>2, <3>1, NoContent
  <2> HIDE DEF f, N, c, r
  <2>4. r \in Seq(N) /\ Pro!Content(r) = Pro!Content(f) \o Pro!Content(c)
    BY <1>1, <2>1, <2>2, ContentJoined DEF Joins
  <2>5. Pro!Content(r) = c
    <3>1. <<>> \o c = c
      BY <1>1
    <3> QED BY <1>1, <2>3, <2>4, <3>1
  <2>6. Pro!IsPrefix(f, r)
    BY <1>1, <2>1, <2>2 DEF Pro!IsPrefix
  <2> QED BY <2>4, <2>5, <2>6 DEF f, N, c, r
<1>3. CASE ~(Pro!Has(nalus, "key") /\ Pro!Complete(v))
  <2>1. r = c
    <3>1. r = <<>> \o c
      BY <1>3 DEF Pro!Remux
    <3> HIDE DEF c, N, r
    <3> QED BY <1>1, <3>1
  <2>2. ~(Pro!Has(r, "key") /\ Pro!Complete(v))
    <3>1. ASSUME Pro!Has(c, "key") PROVE Pro!Has(nalus, "key")
      BY <3>1, ContentFrom
    <3> HIDE DEF c, N, r
    <3> QED BY <1>3, <2>1, <3>1
  <2> HIDE DEF f, N, c, r
  <2> QED BY <1>1, <2>1, <2>2 DEF f, N, c, r
<1> QED BY <1>2, <1>3

(* Routed as they were, up to b, and then again from b.                    *)
Doubled(sent, got) ==
    \E i \in 0 .. Len(sent) : \E j \in 1 .. i + 1 : got = SubSeq(sent, 1, i) \o SubSeq(sent, j, Len(sent))

LEMMA Regrouped ==
    ASSUME NEW X
    PROVE  \A a, b, c \in Seq(X) : (a \o b) \o c = a \o (b \o c)
OBVIOUS

LEMMA ThreeParts ==
    ASSUME NEW X, NEW a \in Seq(X), NEW b \in Seq(X), NEW c \in Seq(X)
    PROVE  (a \o b) \o c = a \o (b \o c) /\ a \o b \in Seq(X) /\ b \o c \in Seq(X)
OBVIOUS

LEMMA TwoParts ==
    ASSUME NEW X, NEW u \in Seq(X), NEW v \in Seq(X)
    PROVE  SubSeq(u \o v, 1, Len(u)) = u /\ SubSeq(u \o v, Len(u) + 1, Len(u \o v)) = v
<1>1. SubSeq(u \o v, 1, Len(u)) = u
  OBVIOUS
<1>2. SubSeq(u \o v, Len(u) + 1, Len(u \o v)) = v
  OBVIOUS
<1> QED BY <1>1, <1>2

LEMMA DoubledIs ==
    ASSUME NEW X, NEW a \in Seq(X), NEW b \in Seq(X), NEW c \in Seq(X)
    PROVE  Doubled(a \o b \o c, (a \o b) \o (b \o c))
<1> DEFINE s == a \o b \o c
           i == Len(a) + Len(b)
           j == Len(a) + 1
<1>1. Len(a) \in Nat /\ Len(b) \in Nat /\ Len(c) \in Nat /\ Len(s) = Len(a) + Len(b) + Len(c)
  OBVIOUS
<1>2. i \in 0 .. Len(s) /\ j \in 1 .. i + 1
  BY <1>1
<1>3. SubSeq(s, 1, i) = a \o b
  <2>1. a \o b \in Seq(X) /\ Len(a \o b) = i
    BY <1>1
  <2> QED BY <2>1, TwoParts
<1>4. SubSeq(s, j, Len(s)) = b \o c
  <2>1. b \o c \in Seq(X) /\ s = a \o (b \o c)
    BY ThreeParts
  <2> HIDE DEF s
  <2> QED BY <2>1, TwoParts
<1> HIDE DEF s, i, j
<1> QED BY <1>2, <1>3, <1>4 DEF Doubled, s

Faultless == trouble \cap {"late", "failed"} = {}

(* What has become of an access unit that goes on: what the decoder has is *)
(* the end of it, and where packets are encoded again some of that has     *)
(* been routed already.                                                    *)
UnitGoesOn(unit, has, got, late, switched) ==
    /\ decoder /\ ~late => has = unit
    /\ ~decoder => has = <<>>
    /\ switched => encoder
    /\ ~encoder => got = unit /\ \E a \in Seq(Pro!NALUs) : unit = a \o has
    /\ encoder /\ ~switched => got = <<>> /\ has = unit
    /\ encoder /\ switched =>
           \E a, b, c \in Seq(Pro!NALUs) : unit = a \o b \o c /\ got = a \o b /\ has = b \o c

ProcessorTypes ==
    /\ codec \in Codecs /\ generates \in BOOLEAN /\ encoder \in BOOLEAN /\ decoder \in BOOLEAN
    /\ others \in BOOLEAN /\ ended \in BOOLEAN
    /\ known \in VersionSet
    /\ accessUnit \in Seq(Pro!NALUs) /\ routed \in Seq(Pro!NALUs)
    /\ frame \in Seq(Pro!NALUs) /\ collected \in Seq(Pro!NALUs)
    /\ trouble \subseteq {"late", "switched", "failed"}
FrameInv ==
    /\ latest = known
    /\ ~ended => frame = <<>>
    /\ frame = <<>> \/ \E x \in Seq(Pro!NALUs) : frame = Pro!Remux(x, known) /\ (Faultless => x = accessUnit)
GapInv ==
    "failed" \notin trouble =>
        IF ended THEN Pro!RoutedWithoutGap
        ELSE UnitGoesOn(accessUnit, collected, routed, "late" \in trouble, "switched" \in trouble)
ProcessorInv ==
    /\ ProcessorTypes /\ FrameInv /\ GapInv
    /\ generates => encoder /\ ~decoder /\ (~ended => accessUnit = <<>> /\ trouble = {})

LEMMA ProcessorSound == ProcessorInv => Pro!ProcessorTypeOK /\ Pro!KeyFramesDecodable /\ Pro!RoutedWithoutGap
<1> SUFFICES ASSUME ProcessorInv PROVE Pro!ProcessorTypeOK /\ Pro!KeyFramesDecodable /\ Pro!RoutedWithoutGap
  OBVIOUS
<1>1. ProcessorTypes /\ FrameInv /\ GapInv /\ known \in VersionSet /\ latest = known /\ codec \in Codecs
  BY DEF ProcessorInv, ProcessorTypes, FrameInv
<1>2. known \in [Pro!ToSet(Pro!Parameters) -> 0 .. MaxParameters]
  <2> DEFINE P == Pro!ToSet(Pro!Parameters)
  <2>1. \A p \in P : Highest(p) \in 1 .. MaxParameters
    BY <1>1, ParametersAre, NALUsAre
  <2>2. known \in [P -> Nat] /\ MaxParameters \in Nat /\ \A p \in P : known[p] <= Highest(p)
    BY <1>1, NALUsAre DEF VersionSet
  <2> HIDE DEF P
  <2>3. \A p \in P : known[p] \in 0 .. MaxParameters
    BY <2>1, <2>2
  <2>4. known \in [P -> 0 .. MaxParameters]
    BY <2>2, <2>3
  <2> QED BY <2>4 DEF P
<1>3. /\ Pro!ToSet(accessUnit) \subseteq Pro!NALUs /\ Pro!ToSet(routed) \subseteq Pro!NALUs
      /\ Pro!ToSet(frame) \subseteq Pro!NALUs /\ Pro!ToSet(collected) \subseteq Pro!NALUs
  BY <1>1 DEF ProcessorTypes, Pro!ToSet
<1>4. Pro!ProcessorTypeOK
  BY <1>1, <1>2, <1>3 DEF ProcessorTypes, Pro!ProcessorTypeOK
<1>5. Pro!KeyFramesDecodable
  <2>1. CASE frame = <<>>
    <3>1. ~Pro!Has(frame, "key")
      BY <2>1 DEF Pro!Has
    <3> QED BY <2>1, <3>1 DEF Pro!KeyFramesDecodable
  <2>2. CASE \E x \in Seq(Pro!NALUs) : frame = Pro!Remux(x, known) /\ (Faultless => x = accessUnit)
    <3>1. PICK x \in Seq(Pro!NALUs) : frame = Pro!Remux(x, known) /\ (Faultless => x = accessUnit)
      BY <2>2
    <3>2. /\ Pro!Content(frame) = Pro!Content(x)
          /\ Pro!Has(frame, "key") /\ Pro!Complete(known) => Pro!IsPrefix(Pro!InFront(known), frame)
      BY <1>1, <3>1, RemuxIs
    <3> QED BY <1>1, <3>1, <3>2 DEF Pro!KeyFramesDecodable, Faultless
  <2> QED BY <1>1, <2>1, <2>2 DEF FrameInv
<1>6. Pro!RoutedWithoutGap
  BY <1>1 DEF GapInv, Pro!RoutedWithoutGap
<1> QED BY <1>4, <1>5, <1>6

LEMMA ProcessorFirst == Pro!ProcessorInit => ProcessorInv
<1> SUFFICES ASSUME Pro!ProcessorInit PROVE ProcessorInv
  OBVIOUS
<1>1. codec \in Codecs /\ generates \in BOOLEAN /\ known = [p \in Pro!ToSet(Pro!Parameters) |-> 0]
      /\ encoder = generates /\ decoder = FALSE /\ collected = <<>> /\ others = FALSE
      /\ accessUnit = <<>> /\ ended = FALSE /\ latest = known
      /\ routed = <<>> /\ frame = <<>> /\ trouble = {}
  BY DEF Pro!ProcessorInit
<1>2. known \in VersionSet
  <2> DEFINE P == Pro!ToSet(Pro!Parameters)
  <2>1. \A p \in P : Highest(p) \in 1 .. MaxParameters
    BY <1>1, ParametersAre, NALUsAre
  <2> HIDE DEF P
  <2>2. known \in [P -> Nat] /\ \A p \in P : known[p] <= Highest(p)
    BY <1>1, <2>1, NALUsAre DEF P
  <2> QED BY <2>2 DEF VersionSet, P
<1>3. <<>> \in Seq(Pro!NALUs) /\ <<>> \o <<>> = <<>>
  OBVIOUS
<1>4. UnitGoesOn(accessUnit, collected, routed, "late" \in trouble, "switched" \in trouble)
  BY <1>1, <1>3 DEF UnitGoesOn
<1>5. GapInv
  BY <1>1, <1>4 DEF GapInv
<1>6. ProcessorTypes
  BY <1>1, <1>2, <1>3 DEF ProcessorTypes
<1>7. FrameInv
  BY <1>1 DEF FrameInv
<1> QED BY <1>1, <1>5, <1>6, <1>7 DEF ProcessorInv

(* What a codec makes of NALUs stays.                                      *)
LEMMA CodecStays ==
    ASSUME codec' = codec
    PROVE  /\ Pro!NALUs' = Pro!NALUs /\ VersionSet' = VersionSet
           /\ \A x : Pro!Remux(x, known)' = Pro!Remux(x, known')
<1>1. Pro!Parameters' = Pro!Parameters
  BY DEF Pro!Parameters
<1>2. Pro!NALUs' = Pro!NALUs
  BY <1>1 DEF Pro!NALUs
<1>3. VersionSet' = VersionSet
  BY <1>1 DEF VersionSet
<1>4. ASSUME NEW x PROVE Pro!Remux(x, known)' = Pro!Remux(x, known')
  BY <1>1 DEF Pro!Remux, Pro!InFront, Pro!Complete
<1> QED BY <1>2, <1>3, <1>4

LEMMA FrameStays ==
    ASSUME FrameInv, UNCHANGED <<codec, known, accessUnit, ended, latest, frame, trouble>>
    PROVE  FrameInv'
<1>1. Pro!NALUs' = Pro!NALUs /\ \A x : Pro!Remux(x, known)' = Pro!Remux(x, known')
  BY CodecStays
<1>2. latest' = known' /\ (~ended' => frame' = <<>>) /\ (Faultless' <=> Faultless)
  BY DEF FrameInv, Faultless
<1>3. CASE frame = <<>>
  BY <1>2, <1>3 DEF FrameInv
<1>4. CASE frame # <<>>
  <2>1. PICK x \in Seq(Pro!NALUs) : frame = Pro!Remux(x, known) /\ (Faultless => x = accessUnit)
    BY <1>4 DEF FrameInv
  <2>2. Pro!Remux(x, known)' = Pro!Remux(x, known)
    BY <1>1
  <2>3. x \in Seq(Pro!NALUs') /\ frame' = Pro!Remux(x, known)' /\ (Faultless' => x = accessUnit')
    BY <1>1, <1>2, <2>1, <2>2
  <2> QED BY <1>2, <2>3, Zenon DEF FrameInv
<1> QED BY <1>3, <1>4

LEMMA GapStays ==
    ASSUME GapInv, UNCHANGED <<codec, encoder, decoder, collected, accessUnit, ended, routed, trouble>>
    PROVE  GapInv'
<1>1. Pro!NALUs' = Pro!NALUs
  BY CodecStays
<1>2. Pro!RoutedWithoutGap' <=> Pro!RoutedWithoutGap
  BY DEF Pro!RoutedWithoutGap
<1>3. UnitGoesOn(accessUnit, collected, routed, "late" \in trouble, "switched" \in trouble)' <=>
      UnitGoesOn(accessUnit, collected, routed, "late" \in trouble, "switched" \in trouble)
  BY <1>1 DEF UnitGoesOn
<1>4. CASE ended
  BY <1>2, <1>4 DEF GapInv
<1>5. CASE ~ended
  BY <1>3, <1>5 DEF GapInv
<1> QED BY <1>4, <1>5

(* What all that is sent has in common.                                    *)
LEMMA SentStep ==
    ASSUME ProcessorInv, NEW nalus \in Seq(Pro!NALUs), NEW all \in BOOLEAN, Pro!Sent(nalus, all),
           known' = Pro!Noticed(known, nalus),
           encoder' \in BOOLEAN, decoder' \in BOOLEAN, trouble' \subseteq {"late", "switched", "failed"},
           routed' \in Seq(Pro!NALUs), collected' \in Seq(Pro!NALUs), frame' \in Seq(Pro!NALUs), trouble \subseteq trouble',
           ~all => frame' = <<>>,
           \/ frame' = <<>>
           \/ \E x \in Seq(Pro!NALUs) :
                  frame' = Pro!Remux(x, known') /\ (trouble' \cap {"late", "failed"} = {} => x = accessUnit \o nalus),
           generates => encoder' /\ ~decoder' /\ all,
           "failed" \notin trouble' =>
               IF all THEN Pro!RoutedWithoutGap'
               ELSE UnitGoesOn(accessUnit, collected, routed, "late" \in trouble, "switched" \in trouble)'
    PROVE  ProcessorInv'
<1>1. /\ ended = FALSE /\ accessUnit' = accessUnit \o nalus /\ ended' = all /\ latest' = Pro!Noticed(latest, nalus)
      /\ codec' = codec /\ generates' = generates /\ others' = others
      /\ codec \in Codecs /\ known \in VersionSet /\ latest = known /\ accessUnit \in Seq(Pro!NALUs)
  BY DEF Pro!Sent, ProcessorInv, ProcessorTypes, FrameInv
<1>2. Pro!NALUs' = Pro!NALUs /\ VersionSet' = VersionSet /\ \A x : Pro!Remux(x, known)' = Pro!Remux(x, known')
  BY <1>1, CodecStays
<1>3. known' \in VersionSet /\ latest' = known'
  BY <1>1, NoticedIs
<1>4. accessUnit' \in Seq(Pro!NALUs)
  BY <1>1
<1>5. ProcessorTypes'
  BY <1>1, <1>2, <1>3, <1>4 DEF ProcessorInv, ProcessorTypes
<1>6. FrameInv'
  <2>1. CASE frame' = <<>>
    BY <1>1, <1>3, <2>1 DEF FrameInv
  <2>2. CASE \E x \in Seq(Pro!NALUs) :
                 frame' = Pro!Remux(x, known') /\ (trouble' \cap {"late", "failed"} = {} => x = accessUnit \o nalus)
    <3>1. PICK x \in Seq(Pro!NALUs) :
              frame' = Pro!Remux(x, known') /\ (trouble' \cap {"late", "failed"} = {} => x = accessUnit \o nalus)
      BY <2>2
    <3>2. frame' = Pro!Remux(x, known)' /\ (Faultless' => x = accessUnit') /\ x \in Seq(Pro!NALUs)'
      BY <1>1, <1>2, <3>1 DEF Faultless
    <3> QED BY <1>1, <1>3, <3>2 DEF FrameInv
  <2> QED BY <2>1, <2>2
<1>7. GapInv'
  BY <1>1 DEF GapInv
<1> QED BY <1>1, <1>5, <1>6, <1>7 DEF ProcessorInv

LEMMA UnitStep ==
    ASSUME ProcessorInv, generates, NEW nalus \in Seq(Pro!NALUs), Pro!ProcessUnit(nalus)
    PROVE  ProcessorInv'
<1>1. /\ Pro!Sent(nalus, TRUE) /\ known' = Pro!Noticed(known, nalus)
      /\ frame' = Pro!Remux(nalus, known') /\ routed' = frame'
      /\ UNCHANGED <<encoder, decoder, collected, trouble>>
      /\ accessUnit' = accessUnit \o nalus
  BY DEF Pro!ProcessUnit, Pro!Sent
<1>2. /\ ~ended /\ accessUnit = <<>> /\ trouble = {} /\ encoder = TRUE /\ codec \in Codecs /\ known \in VersionSet
      /\ decoder \in BOOLEAN /\ collected \in Seq(Pro!NALUs)
  BY <1>1 DEF ProcessorInv, ProcessorTypes, Pro!Sent
<1>3. <<>> \o nalus = nalus
  OBVIOUS
<1>4. known' \in VersionSet
  BY <1>1, <1>2, NoticedIs
<1>5. frame' \in Seq(Pro!NALUs) /\ Pro!Content(frame') = Pro!Content(nalus)
  BY <1>1, <1>2, <1>4, RemuxIs
<1>6. Pro!RoutedWithoutGap'
  BY <1>1, <1>2, <1>3, <1>5 DEF Pro!RoutedWithoutGap
<1>7. \E x \in Seq(Pro!NALUs) :
          frame' = Pro!Remux(x, known') /\ (trouble' \cap {"late", "failed"} = {} => x = accessUnit \o nalus)
  BY <1>1, <1>2, <1>3
<1>8. Pro!Sent(nalus, TRUE) /\ TRUE \in BOOLEAN
  BY <1>1
<1>9. generates => encoder' /\ ~decoder' /\ TRUE
  BY <1>1, <1>2 DEF ProcessorInv
<1> QED BY <1>1, <1>2, <1>5, <1>6, <1>7, <1>8, <1>9, SentStep

LEMMA RoutedStep ==
    ASSUME ProcessorInv, NEW nalus \in Seq(Pro!NALUs), NEW all \in BOOLEAN, Pro!PacketRouted(nalus, all)
    PROVE  ProcessorInv'
<1>1. /\ ~generates /\ ~decoder /\ ~encoder /\ Pro!Sent(nalus, all) /\ known' = Pro!Noticed(known, nalus)
      /\ routed' = routed \o nalus
      /\ UNCHANGED <<encoder, decoder, collected, frame, trouble>>
      /\ accessUnit' = accessUnit \o nalus /\ ~ended /\ codec' = codec
  BY DEF Pro!PacketRouted, Pro!Sent, Pro!RTPExtractParams
<1>2. /\ ProcessorTypes /\ frame = <<>> /\ Pro!NALUs' = Pro!NALUs
  BY <1>1, CodecStays DEF ProcessorInv, FrameInv
<1>3. routed' \in Seq(Pro!NALUs) /\ accessUnit \in Seq(Pro!NALUs)
  BY <1>1, <1>2 DEF ProcessorTypes
<1>4. ASSUME "failed" \notin trouble
      PROVE  /\ collected = <<>> /\ "switched" \notin trouble /\ routed' = accessUnit'
  BY <1>1, <1>4 DEF ProcessorInv, GapInv, UnitGoesOn
<1>5. ASSUME "failed" \notin trouble, all PROVE Pro!RoutedWithoutGap'
  BY <1>1, <1>4, <1>5 DEF Pro!RoutedWithoutGap
<1>6. ASSUME "failed" \notin trouble
      PROVE  UnitGoesOn(accessUnit, collected, routed, "late" \in trouble, "switched" \in trouble)'
  <2>1. accessUnit' \in Seq(Pro!NALUs) /\ accessUnit' = accessUnit' \o <<>>
    BY <1>1, <1>3
  <2> QED BY <1>1, <1>2, <1>4, <1>6, <2>1 DEF UnitGoesOn
<1> QED BY <1>1, <1>2, <1>3, <1>5, <1>6, SentStep DEF ProcessorTypes

LEMMA FailedStep ==
    ASSUME ProcessorInv, NEW nalus \in Seq(Pro!NALUs), NEW all \in BOOLEAN, NEW big \in BOOLEAN,
           Pro!DecodeFails(nalus, all, big) \/ Pro!PacketRefused(nalus, all)
    PROVE  ProcessorInv'
<1>1. /\ ~generates /\ Pro!Sent(nalus, all) /\ known' = Pro!Noticed(known, nalus)
      /\ trouble' = trouble \cup {"failed"} /\ UNCHANGED <<routed, frame>> /\ ~ended
      /\ encoder' \in {encoder, encoder \/ big} /\ decoder' \in {TRUE, decoder} /\ collected' \in {<<>>, collected}
  BY DEF Pro!DecodeFails, Pro!PacketRefused, Pro!Decodes, Pro!Sent, Pro!RTPExtractParams
<1>2. ProcessorTypes /\ frame = <<>>
  BY <1>1 DEF ProcessorInv, FrameInv
<1>3. encoder' \in BOOLEAN /\ decoder' \in BOOLEAN /\ collected' \in Seq(Pro!NALUs) /\ routed' \in Seq(Pro!NALUs)
  BY <1>1, <1>2 DEF ProcessorTypes
<1> QED BY <1>1, <1>2, <1>3, SentStep DEF ProcessorTypes

(* Packets that are encoded again while the access unit goes on.           *)
LEMMA SwitchedContent ==
    ASSUME NEW X, NEW a \in Seq(X), NEW b \in Seq(X), NEW c \in Seq(X), NEW r \in Seq(X),
           Pro!Content(r) = Pro!Content(b \o c)
    PROVE  Doubled(Pro!Content(a \o b \o c), Pro!Content((a \o b) \o r))
<1> DEFINE A == Pro!Content(a)  B == Pro!Content(b)  C == Pro!Content(c)
<1>1. a \o b \in Seq(X) /\ b \o c \in Seq(X)
  OBVIOUS
<1>2. A \in Seq(X) /\ B \in Seq(X) /\ C \in Seq(X)
  BY ContentJoined
<1>3. Pro!Content(a \o b) = A \o B /\ Pro!Content(b \o c) = B \o C
  <2>1. Joins(a, b) /\ Joins(b, c)
    BY ContentJoined
  <2> QED BY <2>1 DEF Joins
<1>4. Pro!Content((a \o b) \o c) = Pro!Content(a \o b) \o C /\ Pro!Content((a \o b) \o r) = Pro!Content(a \o b) \o Pro!Content(r)
  <2> DEFINE d == a \o b
  <2>1. d \in Seq(X)
    BY <1>1
  <2> HIDE DEF d
  <2>2. Pro!Content(d \o c) = Pro!Content(d) \o Pro!Content(c) /\ Pro!Content(d \o r) = Pro!Content(d) \o Pro!Content(r)
    <3>1. Joins(d, c) /\ Joins(d, r)
      BY <2>1, ContentJoined
    <3> QED BY <3>1 DEF Joins
  <2> QED BY <2>2 DEF d
<1>5. Pro!Content(a \o b \o c) = A \o B \o C /\ Pro!Content((a \o b) \o r) = (A \o B) \o (B \o C)
  BY <1>3, <1>4
<1> HIDE DEF A, B, C
<1>6. Doubled(A \o B \o C, (A \o B) \o (B \o C))
  BY <1>2, DoubledIs
<1> QED BY <1>5, <1>6

LEMMA DecodedStep ==
    ASSUME ProcessorInv, NEW nalus \in Seq(Pro!NALUs), NEW all \in BOOLEAN, NEW big \in BOOLEAN,
           Pro!PacketDecoded(nalus, all, big)
    PROVE  ProcessorInv'
<1> DEFINE N == Pro!NALUs
           has == collected \o nalus
           again == Pro!Remux(has, known')
           late == "late" \in trouble
           switched == "switched" \in trouble
<1>1. /\ ~generates /\ Pro!Sent(nalus, all) /\ known' = Pro!Noticed(known, nalus)
      /\ decoder' = TRUE /\ encoder' = (encoder \/ big)
      /\ collected' = has
      /\ routed' = routed \o (IF ~encoder' THEN nalus ELSE IF all THEN again ELSE <<>>)
      /\ frame' = IF all THEN again ELSE <<>>
      /\ trouble' = trouble \cup (IF decoder \/ accessUnit = <<>> THEN {} ELSE {"late"})
                            \cup (IF big /\ ~encoder THEN {"switched"} ELSE {})
      /\ accessUnit' = accessUnit \o nalus /\ ~ended /\ codec' = codec
  BY DEF Pro!PacketDecoded, Pro!Decodes, Pro!Sent, Pro!RTPExtractParams, Pro!Routed
<1>2. ProcessorTypes /\ frame = <<>> /\ Pro!NALUs' = N /\ GapInv
  BY <1>1, CodecStays DEF ProcessorInv, FrameInv
<1>3. /\ accessUnit \in Seq(N) /\ collected \in Seq(N) /\ routed \in Seq(N) /\ codec \in Codecs /\ known \in VersionSet
      /\ encoder \in BOOLEAN /\ decoder \in BOOLEAN /\ trouble \subseteq {"late", "switched", "failed"}
  BY <1>2 DEF ProcessorTypes
<1>4. has \in Seq(N) /\ known' \in VersionSet
  BY <1>1, <1>3, NoticedIs
<1>5. again \in Seq(N) /\ Pro!Content(again) = Pro!Content(has)
  <2> HIDE DEF has
  <2> QED BY <1>3, <1>4, RemuxIs
<1> HIDE DEF N, has, again
<1>6. routed' \in Seq(N) /\ frame' \in Seq(N) /\ <<>> \in Seq(N) /\ nalus \in Seq(N)
  <2>1. nalus \in Seq(N) /\ <<>> \in Seq(N)
    BY DEF N
  <2> QED BY <1>1, <1>3, <1>5, <2>1
<1>7. ASSUME "failed" \notin trouble
      PROVE  UnitGoesOn(accessUnit, collected, routed, late, switched)
  BY <1>1, <1>2, <1>7 DEF GapInv
<1>8. ASSUME "failed" \notin trouble, "late" \notin trouble' PROVE has = accessUnit'
  <2>1. collected = accessUnit
    BY <1>1, <1>3, <1>7, <1>8 DEF UnitGoesOn
  <2> QED BY <1>1, <2>1 DEF has
<1>9. "late" \in trouble => "late" \in trouble'
  BY <1>1
<1>10. /\ "failed" \in trouble' <=> "failed" \in trouble
       /\ "switched" \in trouble' <=> switched \/ (big /\ ~encoder)
       /\ trouble' \subseteq {"late", "switched", "failed"} /\ trouble \subseteq trouble'
  BY <1>1, <1>3
(* Where they are not encoded again.                                       *)
<1>11. ASSUME "failed" \notin trouble, ~encoder'
       PROVE  /\ "switched" \notin trouble' /\ routed' = accessUnit'
              /\ \E a \in Seq(N) : accessUnit' = a \o has
  <2>1. ~encoder /\ ~big /\ ~switched /\ routed = accessUnit
    BY <1>1, <1>3, <1>7, <1>11 DEF UnitGoesOn
  <2>2. PICK a \in Seq(N) : accessUnit = a \o collected
    BY <1>7, <1>11, <2>1 DEF UnitGoesOn, N
  <2>3. (a \o collected) \o nalus = a \o (collected \o nalus)
    <3>1. a \in Seq(N) /\ collected \in Seq(N) /\ nalus \in Seq(N)
      BY <1>3, <1>6, <2>2
    <3> QED BY <3>1, Regrouped
  <2>4. accessUnit' = a \o has
    BY <1>1, <2>2, <2>3 DEF has
  <2>5. "switched" \notin trouble' /\ routed' = accessUnit'
    BY <1>1, <1>10, <1>11, <2>1
  <2> QED BY <2>2, <2>4, <2>5
(* Where they were from the beginning.                                     *)
<1>12. ASSUME "failed" \notin trouble, encoder', "switched" \notin trouble'
       PROVE  routed = <<>> /\ has = accessUnit'
  <2>1. encoder /\ ~switched
    BY <1>1, <1>3, <1>10, <1>12
  <2>2. routed = <<>> /\ collected = accessUnit
    BY <1>7, <1>12, <2>1 DEF UnitGoesOn
  <2> QED BY <1>1, <2>2 DEF has
(* Where they are since this unit, and maybe this packet.                  *)
<1>13. ASSUME "failed" \notin trouble, encoder', "switched" \in trouble'
       PROVE  \E a, b, c \in Seq(N) : accessUnit' = a \o b \o c /\ routed = a \o b /\ has = b \o c
  <2>1. CASE switched
    <3>1. PICK a \in Seq(N), b \in Seq(N), c \in Seq(N) : accessUnit = a \o b \o c /\ routed = a \o b /\ collected = b \o c
      BY <1>7, <1>13, <2>1 DEF UnitGoesOn, N
    <3>2. c \o nalus \in Seq(N) /\ (a \o b \o c) \o nalus = a \o b \o (c \o nalus) /\ (b \o c) \o nalus = b \o (c \o nalus)
      <4>1. collected \in Seq(N) /\ nalus \in Seq(N)
        BY <1>3, <1>6
      <4>2. c \o nalus \in Seq(N) /\ (b \o c) \o nalus = b \o (c \o nalus)
        BY <4>1
      <4>3. (a \o b \o c) \o nalus = a \o b \o (c \o nalus)
        <5> DEFINE d == a \o b
        <5>1. d \in Seq(N)
          OBVIOUS
        <5> HIDE DEF d
        <5>2. (d \o c) \o nalus = d \o (c \o nalus)
          BY <4>1, <5>1
        <5> QED BY <5>2 DEF d
      <4> QED BY <4>2, <4>3
    <3>3. accessUnit' = a \o b \o (c \o nalus) /\ has = b \o (c \o nalus)
      BY <1>1, <3>1, <3>2 DEF has
    <3> QED BY <3>1, <3>2, <3>3
  <2>2. CASE ~switched
    <3>1. ~encoder
      BY <1>10, <1>13, <2>2
    <3>2. routed = accessUnit
      BY <1>3, <1>7, <1>13, <3>1 DEF UnitGoesOn
    <3>3. PICK a \in Seq(N) : accessUnit = a \o collected
      BY <1>7, <1>13, <3>1 DEF UnitGoesOn, N
    <3> QED BY <1>1, <1>3, <1>6, <3>2, <3>3 DEF has
  <2> QED BY <2>1, <2>2
<1>14. ASSUME "failed" \notin trouble, all
       PROVE  Pro!RoutedWithoutGap'
  <2>1. CASE ~encoder'
    BY <1>11, <1>14, <2>1 DEF Pro!RoutedWithoutGap
  <2>2. CASE encoder' /\ "switched" \notin trouble'
    <3>1. routed' = again /\ has = accessUnit'
      <4>1. routed' = <<>> \o again
        BY <1>1, <1>12, <1>14, <2>2
      <4> QED BY <1>5, <1>12, <1>14, <2>2, <4>1
    <3> QED BY <1>5, <2>2, <3>1 DEF Pro!RoutedWithoutGap
  <2>3. CASE encoder' /\ "switched" \in trouble'
    <3>1. PICK a \in Seq(N), b \in Seq(N), c \in Seq(N) : accessUnit' = a \o b \o c /\ routed = a \o b /\ has = b \o c
      BY <1>13, <1>14, <2>3
    <3>2. routed' = (a \o b) \o again
      BY <1>1, <1>14, <2>3, <3>1
    <3>3. Doubled(Pro!Content(a \o b \o c), Pro!Content((a \o b) \o again))
      BY <1>5, <3>1, SwitchedContent
    <3>4. Doubled(Pro!Content(accessUnit'), Pro!Content(routed'))
      BY <3>1, <3>2, <3>3
    <3> QED BY <2>3, <3>4 DEF Doubled, Pro!RoutedWithoutGap
  <2> QED BY <2>1, <2>2, <2>3
<1>15. ASSUME "failed" \notin trouble, ~all
       PROVE  UnitGoesOn(accessUnit, collected, routed, "late" \in trouble, "switched" \in trouble)'
  <2>1. encoder' => routed' = routed
    <3>1. routed \o <<>> = routed
      BY <1>3
    <3> QED BY <1>1, <1>15, <3>1
  <2>2. "late" \notin trouble' => collected' = accessUnit'
    BY <1>1, <1>8, <1>15
  <2>3. "switched" \in trouble' => encoder'
    BY <1>11, <1>15
  <2>4. ~encoder' => routed' = accessUnit' /\ \E a \in Seq(N) : accessUnit' = a \o collected'
    BY <1>1, <1>11, <1>15
  <2>5. encoder' /\ "switched" \notin trouble' => routed' = <<>> /\ collected' = accessUnit'
    BY <1>1, <1>12, <1>15, <2>1
  <2>6. encoder' /\ "switched" \in trouble' =>
            \E a, b, c \in Seq(N) : accessUnit' = a \o b \o c /\ routed' = a \o b /\ collected' = b \o c
    BY <1>1, <1>13, <1>15, <2>1
  <2> QED BY <1>1, <1>2, <2>2, <2>3, <2>4, <2>5, <2>6 DEF UnitGoesOn
<1>16. \/ frame' = <<>>
       \/ \E x \in Seq(N) :
              frame' = Pro!Remux(x, known') /\ (trouble' \cap {"late", "failed"} = {} => x = accessUnit \o nalus)
  <2>1. trouble' \cap {"late", "failed"} = {} => has = accessUnit \o nalus
    BY <1>1, <1>8, <1>10
  <2>2. all => frame' = Pro!Remux(has, known') /\ has \in Seq(N)
    BY <1>1, <1>4 DEF again, N
  <2> QED BY <1>1, <2>1, <2>2
<1>17. encoder' \in BOOLEAN /\ decoder' \in BOOLEAN /\ collected' \in Seq(Pro!NALUs)
  BY <1>1, <1>3, <1>4 DEF N
<1>18. routed' \in Seq(Pro!NALUs) /\ frame' \in Seq(Pro!NALUs) /\ (~all => frame' = <<>>)
  BY <1>1, <1>6 DEF N
<1>19. "failed" \notin trouble' =>
           IF all THEN Pro!RoutedWithoutGap'
           ELSE UnitGoesOn(accessUnit, collected, routed, "late" \in trouble, "switched" \in trouble)'
  BY <1>10, <1>14, <1>15
<1> QED BY <1>1, <1>10, <1>16, <1>17, <1>18, <1>19, SentStep, Zenon DEF N

LEMMA ProcessorStep ==
    ASSUME ProcessorInv, Pro!ProcessorNext
    PROVE  ProcessorInv'
<1>1. ASSUME NEW n \in Nat, NEW nalus \in Pro!Following(n) PROVE nalus \in Seq(Pro!NALUs)
  <2>1. nalus \in Pro!SeqOf(Pro!NALUs, n)
    BY <1>1 DEF Pro!Following
  <2>2. PICK m \in 0 .. n : nalus \in [1 .. m -> Pro!NALUs]
    BY <2>1 DEF Pro!SeqOf
  <2> QED BY <2>2
<1>2. MaxNALUs \in Nat /\ 2 \in Nat
  BY MediaAssumption DEF Pro!ProcessorAssumption
<1>3. CASE Pro!OthersComeOrGo
  <2>1. /\ others' = ~others
        /\ UNCHANGED <<codec, generates, known, encoder, decoder, collected, accessUnit, ended, latest, routed, frame, trouble>>
    BY <1>3 DEF Pro!OthersComeOrGo, Pro!formatVars, Pro!unitVars
  <2>2. Pro!NALUs' = Pro!NALUs /\ VersionSet' = VersionSet /\ \A x : Pro!Remux(x, known)' = Pro!Remux(x, known')
    BY <2>1, CodecStays
  <2>3. ProcessorTypes' /\ GapInv' /\ FrameInv'
    <3>1. ProcessorTypes'
      BY <2>1, <2>2 DEF ProcessorInv, ProcessorTypes
    <3>2. GapInv'
      BY <2>1, GapStays DEF ProcessorInv
    <3>3. FrameInv'
      BY <2>1, FrameStays DEF ProcessorInv
    <3> QED BY <3>1, <3>2, <3>3
  <2> QED BY <2>1, <2>3 DEF ProcessorInv
<1>4. CASE Pro!UnitTaken
  <2>1. /\ ended' = FALSE /\ accessUnit' = <<>> /\ collected' = <<>> /\ routed' = <<>> /\ frame' = <<>> /\ trouble' = {}
        /\ UNCHANGED <<codec, generates, known, encoder, decoder, others, latest>>
    BY <1>4 DEF Pro!UnitTaken, Pro!formatVars
  <2>2. Pro!NALUs' = Pro!NALUs /\ VersionSet' = VersionSet
    BY <2>1, CodecStays
  <2>3. <<>> \in Seq(Pro!NALUs) /\ <<>> \o <<>> = <<>>
    OBVIOUS
  <2>4. ProcessorTypes'
    BY <2>1, <2>2, <2>3 DEF ProcessorInv, ProcessorTypes
  <2>5. FrameInv'
    BY <2>1 DEF ProcessorInv, FrameInv
  <2>6. UnitGoesOn(accessUnit, collected, routed, "late" \in trouble, "switched" \in trouble)'
    BY <2>1, <2>2, <2>3 DEF UnitGoesOn
  <2>7. GapInv'
    BY <2>1, <2>6 DEF GapInv
  <2>8. generates => encoder' /\ ~decoder'
    BY <2>1 DEF ProcessorInv
  <2> QED BY <2>1, <2>4, <2>5, <2>7, <2>8 DEF ProcessorInv
<1>5. CASE generates /\ ~ended /\ \E nalus \in Pro!Following(MaxNALUs) : Pro!ProcessUnit(nalus)
  BY <1>1, <1>2, <1>5, UnitStep
<1>6. CASE ~generates /\ ~ended /\ \E nalus \in Pro!Following(2), all \in BOOLEAN :
               \/ Pro!PacketRouted(nalus, all) \/ Pro!PacketRefused(nalus, all)
               \/ \E big \in BOOLEAN : Pro!PacketDecoded(nalus, all, big) \/ Pro!DecodeFails(nalus, all, big)
  <2>1. PICK nalus \in Pro!Following(2), all \in BOOLEAN :
               \/ Pro!PacketRouted(nalus, all) \/ Pro!PacketRefused(nalus, all)
               \/ \E big \in BOOLEAN : Pro!PacketDecoded(nalus, all, big) \/ Pro!DecodeFails(nalus, all, big)
    BY <1>6
  <2>2. nalus \in Seq(Pro!NALUs)
    BY <1>1, <1>2, <2>1
  <2> QED BY <2>1, <2>2, RoutedStep, FailedStep, DecodedStep
<1> QED BY <1>3, <1>4, <1>5, <1>6 DEF Pro!ProcessorNext

-----------------------------------------------------------------------------
(* The types of the peer connection and of the authentication manager.     *)

Changes == {"connected", "failed", "closed"}
Steps == {"describing", "answering", "connecting", "gathering", "adding", "starting", "reading", "left"}

(* What the library has told, tells and may tell; who receives has tracks. *)
ChangeBounds ==
    /\ library.reconnects <= MaxReconnects
    /\ changes["connected"] + library.reconnects <= MaxReconnects + 1
    /\ library.state \in {"new", "negotiated"} => changes["connected"] + library.reconnects <= MaxReconnects
    /\ changes["failed"] <= 1
TrackBounds == \A t \in Tracks : track[t] = "none" \/ Peer!Receives
PeerBounds ==
    /\ PeerInv /\ ChangeBounds /\ TrackBounds
    /\ told \in BOOLEAN /\ ctxDone \in BOOLEAN /\ owner \in {"waiting", "closing", "done"} /\ user \in Steps
    /\ candidates.left <= MaxCandidates

LEMMA PeerTypesAre == PeerBounds => Peer!PeerTypeOK
<1> SUFFICES ASSUME PeerBounds PROVE Peer!PeerTypeOK
  OBVIOUS
<1>1. /\ PeerTypes /\ RunInv /\ SignalInv /\ ChangeBounds /\ TrackBounds
      /\ MaxCandidates \in Nat /\ MaxReconnects \in Nat
  BY MediaAssumption DEF PeerBounds, PeerInv, Peer!PeerAssumption
<1>2. changes["failed"] \in 0 .. 1 + MaxReconnects /\ changes["closed"] \in 0 .. 1 + MaxReconnects
      /\ changes["connected"] \in 0 .. 1 + MaxReconnects
  <2>1. /\ changes["failed"] \in Nat /\ changes["closed"] \in Nat /\ changes["connected"] \in Nat
        /\ signal["closed"] \in Nat /\ library.reconnects \in Nat
    BY <1>1 DEF PeerTypes, Peer!Signals
  <2> QED BY <1>1, <2>1 DEF SignalInv, ChangeBounds
<1>3. changes \in [Changes -> 0 .. 1 + MaxReconnects]
  BY <1>1, <1>2 DEF PeerTypes, Changes
<1>4. library.reconnects \in 0 .. MaxReconnects /\ candidates.left \in 0 .. MaxCandidates
  BY <1>1 DEF PeerBounds, PeerTypes, ChangeBounds
<1>5. /\ library \in [state : {"new", "negotiated", "connected", "disconnected", "failed", "closed"},
                      reconnects : 0 .. MaxReconnects]
      /\ candidates \in [at : {"no", "gathering", "blocked", "done"}, left : 0 .. MaxCandidates]
  BY <1>1, <1>4 DEF PeerTypes
<1> QED BY <1>1, <1>3, <1>5 DEF PeerBounds, PeerTypes, RunInv, TrackBounds, Peer!PeerTypeOK, Changes, Steps

LEMMA BoundsFirst == Peer!PeerInit => PeerBounds
<1> SUFFICES ASSUME Peer!PeerInit PROVE PeerBounds
  OBVIOUS
<1>1. PeerInv /\ MaxCandidates \in Nat /\ MaxReconnects \in Nat
  BY PeerFirst, MediaAssumption DEF Peer!PeerAssumption
<1>2. /\ library.reconnects = MaxReconnects /\ changes["connected"] = 0 /\ changes["failed"] = 0 /\ candidates.left = MaxCandidates
      /\ told = FALSE /\ ctxDone = FALSE /\ owner = "waiting" /\ user = "describing" /\ \A t \in Tracks : track[t] = "none"
  BY DEF Peer!PeerInit
<1>3. ChangeBounds
  BY <1>1, <1>2 DEF ChangeBounds
<1>4. TrackBounds /\ candidates.left <= MaxCandidates /\ user \in Steps
  BY <1>1, <1>2 DEF TrackBounds, Steps
<1>5. told \in BOOLEAN /\ ctxDone \in BOOLEAN /\ owner \in {"waiting", "closing", "done"}
  BY <1>2
<1> QED BY <1>1, <1>3, <1>4, <1>5, Zenon DEF PeerBounds

(* The steps in which the library tells nothing new.                       *)
LEMMA BoundsQuiet ==
    ASSUME PeerBounds, PeerInv', role' = role,
           library'.reconnects = library.reconnects,
           library'.state \in {"new", "negotiated"} => library.state \in {"new", "negotiated"},
           changes'["connected"] <= changes["connected"], changes'["failed"] <= changes["failed"],
           \A t \in Tracks : track'[t] = track[t] \/ track[t] # "none",
           told' \in BOOLEAN, ctxDone' \in BOOLEAN, owner' \in {"waiting", "closing", "done"}, user' \in Steps,
           candidates'.left <= candidates.left
    PROVE  PeerBounds'
<1>1. MaxCandidates \in Nat /\ MaxReconnects \in Nat
  BY MediaAssumption DEF Peer!PeerAssumption
<1>2. /\ library.reconnects \in Nat /\ changes["connected"] \in Nat /\ changes["failed"] \in Nat /\ candidates.left \in Nat
      /\ changes'["connected"] \in Nat /\ changes'["failed"] \in Nat /\ candidates'.left \in Nat
  BY DEF PeerBounds, PeerInv, PeerTypes
<1>3. ChangeBounds'
  BY <1>1, <1>2 DEF PeerBounds, ChangeBounds
<1>4. TrackBounds'
  BY DEF PeerBounds, TrackBounds, Peer!Receives
<1>5. candidates'.left <= MaxCandidates
  BY <1>1, <1>2 DEF PeerBounds
<1> QED BY <1>3, <1>4, <1>5 DEF PeerBounds

(* The changes of the library's state.                                     *)
LEMMA BoundsChange ==
    ASSUME PeerBounds, PeerInv', UNCHANGED <<role, told, owner, user, ctxDone, run, signal, candidates, track>>, ChangeBounds'
    PROVE  PeerBounds'
  BY DEF PeerBounds, TrackBounds, Peer!Receives

LEMMA BoundsLibrary ==
    ASSUME PeerBounds, PeerInv', Peer!LibraryCalls \/ Peer!NetworkSteps
    PROVE  PeerBounds'
<1>0. /\ PeerTypes /\ SignalInv /\ ChangeBounds
      /\ told \in BOOLEAN /\ ctxDone \in BOOLEAN /\ owner \in {"waiting", "closing", "done"} /\ user \in Steps
      /\ changes \in [Changes -> Nat] /\ library.reconnects \in Nat /\ MaxReconnects \in Nat /\ candidates.left \in Nat
  BY MediaAssumption DEF PeerBounds, PeerInv, PeerTypes, Changes, Peer!PeerAssumption
<1>1. ASSUME NEW s \in DOMAIN changes, Peer!OnConnectionStateChange(s) PROVE PeerBounds'
  <2>1. /\ changes' = [changes EXCEPT ![s] = @ - 1] /\ UNCHANGED <<role, told, owner, user, ctxDone, library, candidates, track>>
    BY <1>1 DEF Peer!OnConnectionStateChange
  <2>2. changes'["connected"] <= changes["connected"] /\ changes'["failed"] <= changes["failed"]
    BY <1>0, <2>1 DEF Changes
  <2> QED BY <1>0, <2>1, <2>2, BoundsQuiet
<1>2. CASE Peer!CandidateFound \/ Peer!CandidateSkipped \/ Peer!GatheringDone
  <2>1. UNCHANGED <<role, told, owner, user, ctxDone, library, changes, track>>
    BY <1>2 DEF Peer!CandidateFound, Peer!CandidateSkipped, Peer!GatheringDone
  <2>2. candidates'.left <= candidates.left
    BY <1>0, <1>2 DEF Peer!CandidateFound, Peer!CandidateSkipped, Peer!GatheringDone, PeerTypes
  <2>3. changes["connected"] \in Nat /\ changes["failed"] \in Nat
    BY <1>0 DEF Changes
  <2>4. changes'["connected"] <= changes["connected"] /\ changes'["failed"] <= changes["failed"]
    BY <2>1, <2>3
  <2> QED BY <1>0, <2>1, <2>2, <2>4, BoundsQuiet
<1>3. ASSUME NEW t \in Tracks, Peer!TrackSkipped(t) \/ Peer!OnTrack(t) PROVE PeerBounds'
  <2>1. UNCHANGED <<role, told, owner, user, ctxDone, library, changes, candidates>>
    BY <1>3 DEF Peer!TrackSkipped, Peer!OnTrack
  <2>2. Peer!Receives /\ TrackBounds'
    BY <1>0, <1>3 DEF Peer!TrackSkipped, Peer!OnTrack, PeerBounds, TrackBounds, Peer!Receives
  <2> QED BY <2>1, <2>2 DEF PeerBounds, ChangeBounds
<1>4. ASSUME NEW state \in {"connected", "disconnected", "failed", "closed"}, Peer!Becomes(state, state),
             library.state \in {"negotiated", "connected", "disconnected"},
             state = "connected" => library.state = "negotiated"
      PROVE  PeerBounds'
  <2>1. /\ UNCHANGED <<role, told, owner, user, ctxDone, run, signal, candidates, track>>
        /\ library'.state = state /\ library'.reconnects = library.reconnects
    BY <1>0, <1>4 DEF Peer!Becomes, PeerTypes
  <2>2. /\ state = "disconnected" => changes' = changes
        /\ state # "disconnected" => changes' = [changes EXCEPT ![state] = @ + 1]
    BY <1>0, <1>4 DEF Peer!Becomes, Changes
  <2>3. /\ changes["connected"] \in Nat /\ changes["failed"] = 0
        /\ changes'["connected"] = changes["connected"] + (IF state = "connected" THEN 1 ELSE 0)
        /\ changes'["failed"] = (IF state = "failed" THEN 1 ELSE 0)
    BY <1>0, <1>4, <2>2 DEF Changes, SignalInv
  <2>4. ChangeBounds'
    BY <1>0, <1>4, <2>1, <2>3 DEF ChangeBounds
  <2> QED BY <2>1, <2>4, BoundsChange
<1>5. CASE Peer!Reconnects
  <2>1. /\ library' = [state |-> "connected", reconnects |-> library.reconnects - 1] /\ library.reconnects > 0
        /\ changes' = [changes EXCEPT !["connected"] = @ + 1]
        /\ UNCHANGED <<role, told, owner, user, ctxDone, run, signal, candidates, track>>
    BY <1>5 DEF Peer!Reconnects
  <2>2. ChangeBounds'
    BY <1>0, <2>1 DEF ChangeBounds, Changes
  <2> QED BY <2>1, <2>2, BoundsChange
<1>6. CASE Peer!Connects \/ Peer!Disconnects \/ Peer!ConnectionFails \/ Peer!OtherSideCloses
  BY <1>4, <1>6 DEF Peer!Connects, Peer!Disconnects, Peer!ConnectionFails, Peer!OtherSideCloses
<1> QED BY <1>1, <1>2, <1>3, <1>5, <1>6 DEF Peer!LibraryCalls, Peer!NetworkSteps

LEMMA BoundsOthers ==
    ASSUME PeerBounds, PeerInv', Peer!UserGoesOn \/ Peer!Told \/ Peer!PeerGoesOn
    PROVE  PeerBounds'
<1>0. /\ PeerTypes
      /\ told \in BOOLEAN /\ ctxDone \in BOOLEAN /\ owner \in {"waiting", "closing", "done"} /\ user \in Steps
      /\ changes["connected"] \in Nat /\ changes["failed"] \in Nat /\ candidates.left \in Nat
  BY DEF PeerBounds, PeerInv, PeerTypes
<1>1. /\ changes["connected"] <= changes["connected"] /\ changes["failed"] <= changes["failed"]
      /\ candidates.left <= candidates.left
  BY <1>0
<1>2. CASE Peer!Negotiated
  <2>1. UNCHANGED <<role, told, owner, ctxDone, changes, candidates, track>> /\ user' = "connecting"
        /\ library'.reconnects = library.reconnects
        /\ library'.state = IF library.state = "new" THEN "negotiated" ELSE library.state
    BY <1>0, <1>2 DEF Peer!Negotiated, Peer!Goes, PeerTypes
  <2> QED BY <1>0, <1>1, <2>1, BoundsQuiet DEF Steps
<1>3. CASE Peer!Describes \/ Peer!CandidateTaken
  <2>1. UNCHANGED <<role, told, owner, ctxDone, changes, library, track>> /\ user' \in Steps
        /\ candidates'.left = candidates.left
    BY <1>0, <1>3 DEF Peer!Describes, Peer!CandidateTaken, Peer!Goes, PeerTypes, Steps
  <2> QED BY <1>0, <1>1, <2>1, BoundsQuiet
<1>4. CASE Peer!GatherIncomingTracks
  <2>1. UNCHANGED <<role, told, owner, ctxDone, changes, library, candidates>> /\ user' \in Steps
    BY <1>4 DEF Peer!GatherIncomingTracks, Peer!Goes, Steps
  <2>2. track' = track \/ \E t \in Tracks : track[t] = "offered" /\ track' = [track EXCEPT ![t] = "gathered"]
    BY <1>4 DEF Peer!GatherIncomingTracks
  <2>3. \A t \in Tracks : track'[t] = track[t] \/ track[t] # "none"
    BY <1>0, <2>2 DEF PeerTypes
  <2> QED BY <1>0, <1>1, <2>1, <2>3, BoundsQuiet
<1>5. CASE Peer!Errs \/ Peer!Added \/ Peer!StartReadingSkipped \/ Peer!CtxDone \/ Peer!Leaves \/ Peer!WaitUntilConnected
  <2>1. UNCHANGED <<role, told, owner, ctxDone, changes, library, candidates, track>> /\ user' \in Steps
    <3>1. CASE Peer!WaitUntilConnected
      BY <3>1 DEF Peer!WaitUntilConnected, Peer!Goes, Peer!Stays, Steps
    <3>2. CASE ~Peer!WaitUntilConnected
      BY <1>5, <3>2 DEF Peer!Errs, Peer!Added, Peer!StartReadingSkipped, Peer!CtxDone, Peer!Leaves, Peer!Goes, Peer!Stays, Steps
    <3> QED BY <3>1, <3>2
  <2> QED BY <1>0, <1>1, <2>1, BoundsQuiet
<1>6. CASE Peer!Told \/ Peer!Close \/ Peer!CloseReturns \/ Peer!GracefulCloseReturns \/ Peer!RunEnds
  <2>1. /\ UNCHANGED <<role, user, changes, library, candidates, track>>
        /\ told' \in BOOLEAN /\ ctxDone' \in BOOLEAN /\ owner' \in {"waiting", "closing", "done"}
    BY <1>0, <1>6 DEF Peer!Told, Peer!Close, Peer!CloseReturns, Peer!GracefulCloseReturns, Peer!RunEnds
  <2> QED BY <1>0, <1>1, <2>1, BoundsQuiet
<1>7. CASE Peer!StartReading
  <2>1. /\ UNCHANGED <<role, told, owner, ctxDone, changes, library, candidates>> /\ user' \in Steps
        /\ track' = [t \in Tracks |-> IF track[t] = "gathered" THEN "reading" ELSE track[t]]
    BY <1>7 DEF Peer!StartReading, Peer!Goes, Steps
  <2>2. \A t \in Tracks : track'[t] = track[t] \/ track[t] # "none"
    BY <2>1
  <2> QED BY <1>0, <1>1, <2>1, <2>2, BoundsQuiet
<1>8. CASE Peer!RunTerminated
  <2>1. /\ UNCHANGED <<role, told, owner, user, ctxDone, candidates>>
        /\ track' = [t \in Tracks |-> IF track[t] \in {"gathered", "reading"} THEN "closed" ELSE track[t]]
        /\ library' = [library EXCEPT !.state = "closed"]
        /\ changes' = IF library.state = "closed" THEN changes ELSE [changes EXCEPT !["closed"] = @ + 1]
    BY <1>8 DEF Peer!RunTerminated
  <2>2. \A t \in Tracks : track'[t] = track[t] \/ track[t] # "none"
    BY <2>1
  <2>3. /\ changes'["connected"] = changes["connected"] /\ changes'["failed"] = changes["failed"]
        /\ library'.state = "closed" /\ library'.reconnects = library.reconnects
    BY <1>0, <2>1 DEF PeerTypes
  <2> QED BY <1>0, <1>1, <2>1, <2>2, <2>3, BoundsQuiet
<1> QED BY <1>2, <1>3, <1>4, <1>5, <1>6, <1>7, <1>8 DEF Peer!UserGoesOn, Peer!PeerGoesOn

LEMMA BoundsStep ==
    ASSUME PeerBounds, Peer!PeerNext
    PROVE  PeerBounds'
<1>1. PeerInv'
  BY LibraryStep, NetworkStep, UserStep, PeerRunStep DEF PeerBounds, Peer!PeerNext
<1> QED BY <1>1, BoundsLibrary, BoundsOthers DEF Peer!PeerNext

LEMMA AuthTypesAre == AuthInv => Aut!AuthTypeOK
<1> SUFFICES ASSUME AuthInv PROVE Aut!AuthTypeOK
  OBVIOUS
<1>1. ASSUME NEW r \in Requests
      PROVE  /\ request[r].at \in {"none", "asking", "locking", "getting", "got", "verifying", "granted", "denied"}
             /\ (authMutex = r) = (request[r].at \in {"getting", "got"})
  <2>1. request[r] \in RequestTypes
    BY DEF AuthInv
  <2>2. request[r].at \in {"none", "asking", "locking", "getting", "got", "verifying", "granted", "denied"}
    BY <2>1 DEF RequestTypes
  <2>3. authMutex = r <=> request[r].at \in {"getting", "got"}
    BY DEF AuthInv, RequestInv
  <2> QED BY <2>2, <2>3
<1> QED BY <1>1 DEF AuthInv, Aut!AuthTypeOK

-----------------------------------------------------------------------------
(* One part at a time.                                                     *)

PartsInv ==
    /\ IsRecorder => RecordingInv
    /\ IsStream => UnitsInv
    /\ IsCommand => CommandInv
    /\ IsCleaner => CleanerInv
    /\ IsPeer => PeerBounds
    /\ IsCert => CertInv
    /\ IsAuth => AuthInv
    /\ IsEstimator => EstimatorInv
    /\ IsProcessor => ProcessorInv

LEMMA PartsFirst == DoubledTracks = {} /\ Init => PartsInv
<1> SUFFICES ASSUME DoubledTracks = {}, Init PROVE PartsInv
  OBVIOUS
<1>1. /\ IsRecorder => Rec!Init
      /\ IsStream => Str!StreamInit
      /\ IsCommand => Cmd!CommandInit
      /\ IsCleaner => Cln!CleanerInit
      /\ IsPeer => Peer!PeerInit
      /\ IsCert => Crt!CertInit
      /\ IsAuth => Aut!AuthInit
      /\ IsEstimator => Est!EstimatorInit
      /\ IsProcessor => Pro!ProcessorInit
  BY Zenon DEF Init
<1> QED
  BY Zenon, <1>1, RecordingFirst, UnitsFirst, CommandFirst, CleanerFirst, BoundsFirst, CertFirst,
     AuthFirst, EstimatorFirst, ProcessorFirst DEF PartsInv

LEMMA PartsUnchanged == PartsInv /\ UNCHANGED vars => PartsInv'
<1> SUFFICES ASSUME PartsInv, UNCHANGED vars PROVE PartsInv'
  OBVIOUS
<1>1. part' = part
  BY DEF vars
<1>2. RecordingInv => RecordingInv'
  <2>1. UNCHANGED recorderVars
    BY DEF vars
  <2>2. RecorderInv => RecorderInv'
    BY <2>1 DEF recorderVars, RecorderInv, RecorderTypes, LifeInv, SampleInv, DiskInv
  <2>3. StepInv => StepInv'
    BY <2>1 DEF recorderVars, StepInv
  <2>4. HeldInv => HeldInv'
    <3>1. /\ segment' = segment /\ disk' = disk /\ instance' = instance /\ format' = format
          /\ clock' = clock /\ number' = number
      BY <2>1 DEF recorderVars
    <3>2. ASSUME NEW n \in {0, 1} PROVE Held(segment, disk, n) => Held(segment, disk, n)'
      <4>1. FileKept(segment, disk[segment.start], n) => FileKept(segment, disk[segment.start], n)'
        BY <3>1 DEF FileKept, FileBounds, Saved
      <4>2. Kept(segment, disk, n) => Kept(segment, disk, n)'
        BY <4>1, <3>1 DEF Kept, SegmentBounds
      <4> QED BY <4>2, <3>1 DEF Held, Covered, Reached
    <3>3. OthersFine(segment, disk) => OthersFine(segment, disk)'
      BY <3>1 DEF OthersFine, FileBounds
    <3> QED BY <3>1, <3>2, <3>3 DEF HeldInv
  <2>5. OrderInv => OrderInv'
    BY <2>1 DEF recorderVars, OrderInv
  <2> QED BY <2>2, <2>3, <2>4, <2>5 DEF RecordingInv
<1>3. UnitsInv => UnitsInv'
  BY DEF vars, streamVars, UnitsInv, StreamInv, StreamTypes, WriterInv, ReaderInv
<1>4. CommandInv => CommandInv'
  BY DEF vars, commandVars, CommandInv, Cmd!CommandTypeOK, Cmd!Over
<1>5. CleanerInv => CleanerInv'
  BY DEF vars, cleanerVars, CleanerInv, Began, Cln!CleanerTypeOK
<1>6. PeerBounds => PeerBounds'
  <2>1. UNCHANGED peerVars
    BY DEF vars
  <2>2. PeerInv => PeerInv'
    BY <2>1 DEF peerVars, PeerInv, PeerTypes, SignalInv, CandidateInv, RunInv, Peer!Is
  <2> QED BY <2>1, <2>2 DEF peerVars, PeerBounds, ChangeBounds, TrackBounds, Peer!Receives
<1>7. CertInv => CertInv'
  BY DEF vars, certVars, CertInv, ReadInv, Crt!CertTypeOK
<1>8. AuthInv => AuthInv'
  BY DEF vars, authVars, AuthInv, PromiseInv, RequestInv
<1>9. EstimatorInv => EstimatorInv'
  BY DEF vars, estimatorVars, EstimatorInv, Est!EstimatorTypeOK, Est!NeverBack
<1>10. ProcessorInv => ProcessorInv'
  <2>1. UNCHANGED processorVars
    BY DEF vars
  <2>2. Pro!NALUs' = Pro!NALUs /\ VersionSet' = VersionSet /\ \A x : Pro!Remux(x, known)' = Pro!Remux(x, known')
    BY <2>1, CodecStays DEF processorVars
  <2>3. ProcessorTypes => ProcessorTypes'
    BY <2>1, <2>2 DEF processorVars, ProcessorTypes
  <2>4. FrameInv => FrameInv'
    BY <2>1, FrameStays DEF processorVars
  <2>5. GapInv => GapInv'
    BY <2>1, GapStays DEF processorVars
  <2> QED BY <2>1, <2>3, <2>4, <2>5 DEF processorVars, ProcessorInv
<1> HIDE DEF RecordingInv, UnitsInv, CommandInv, CleanerInv, PeerBounds, CertInv, AuthInv, EstimatorInv, ProcessorInv
<1> QED
  BY Zenon, <1>1, <1>2, <1>3, <1>4, <1>5, <1>6, <1>7, <1>8, <1>9, <1>10
  DEF PartsInv, IsRecorder, IsStream, IsCommand, IsCleaner, IsPeer, IsCert, IsAuth, IsEstimator, IsProcessor

LEMMA PartsStep == DoubledTracks = {} /\ PartsInv /\ Next => PartsInv'
<1> SUFFICES ASSUME DoubledTracks = {}, PartsInv, Next PROVE PartsInv'
  OBVIOUS
<1> USE DEF IsRecorder, IsStream, IsCommand, IsCleaner, IsPeer, IsCert, IsAuth, IsEstimator, IsProcessor
<1>1. CASE OfRecorder(Rec!Next)
  <2>1. part = "recorder" /\ part' = part /\ Rec!Next
    BY Zenon, <1>1 DEF OfRecorder
  <2> QED BY <2>1, RecordingStep DEF PartsInv
<1>2. CASE OfStream(Str!StreamNext)
  <2>1. part = "stream" /\ part' = part /\ Str!StreamNext
    BY Zenon, <1>2 DEF OfStream
  <2> QED BY <2>1, UnitsStep DEF PartsInv
<1>3. CASE OfCommand(Cmd!CommandNext)
  <2>1. part = "command" /\ part' = part /\ Cmd!CommandNext
    BY Zenon, <1>3 DEF OfCommand
  <2> QED BY <2>1, CommandStep DEF PartsInv
<1>4. CASE OfCleaner(Cln!CleanerNext)
  <2>1. part = "cleaner" /\ part' = part /\ Cln!CleanerNext
    BY Zenon, <1>4 DEF OfCleaner
  <2> QED BY <2>1, CleanerStep DEF PartsInv
<1>5. CASE OfPeer(Peer!PeerNext)
  <2>1. part = "peer" /\ part' = part /\ Peer!PeerNext
    BY Zenon, <1>5 DEF OfPeer
  <2> QED BY <2>1, BoundsStep DEF PartsInv
<1>6. CASE OfCert(Crt!CertNext)
  <2>1. part = "certificate" /\ part' = part /\ Crt!CertNext
    BY Zenon, <1>6 DEF OfCert
  <2> QED BY <2>1, CertStep DEF PartsInv
<1>7. CASE OfAuth(Aut!AuthNext)
  <2>1. part = "authentication" /\ part' = part /\ Aut!AuthNext
    BY Zenon, <1>7 DEF OfAuth
  <2> QED BY <2>1, AuthStep DEF PartsInv
<1>8. CASE OfEstimator(Est!EstimatorNext)
  <2>1. part = "estimator" /\ part' = part /\ Est!EstimatorNext
    BY Zenon, <1>8 DEF OfEstimator
  <2> QED BY <2>1, EstimatorStep DEF PartsInv
<1>9. CASE OfProcessor(Pro!ProcessorNext)
  <2>1. part = "processor" /\ part' = part /\ Pro!ProcessorNext
    BY Zenon, <1>9 DEF OfProcessor
  <2> QED BY <2>1, ProcessorStep DEF PartsInv
<1> QED BY Zenon, <1>1, <1>2, <1>3, <1>4, <1>5, <1>6, <1>7, <1>8, <1>9 DEF Next

LEMMA PartsAlways == DoubledTracks = {} => (Spec => []PartsInv)
<1> SUFFICES ASSUME DoubledTracks = {} PROVE Spec => []PartsInv
  OBVIOUS
<1>1. Init => PartsInv
  BY PartsFirst
<1>2. PartsInv /\ [Next]_vars => PartsInv'
  BY PartsStep, PartsUnchanged
<1> QED BY <1>1, <1>2, PTL DEF Spec

LEMMA PartsTypes == DoubledTracks = {} /\ PartsInv => TypeOK
<1> SUFFICES ASSUME DoubledTracks = {}, PartsInv PROVE TypeOK
  OBVIOUS
<1>1. /\ CommandInv => Cmd!CommandTypeOK
      /\ CleanerInv => Cln!CleanerTypeOK
      /\ CertInv => Crt!CertTypeOK
      /\ EstimatorInv => Est!EstimatorTypeOK
  BY DEF CommandInv, CleanerInv, CertInv, EstimatorInv
<1> QED
  BY Zenon, <1>1, RecorderTypesAre, UnitsCount, PeerTypesAre, AuthTypesAre, ProcessorSound DEF TypeOK, PartsInv

LEMMA PartsSound == DoubledTracks = {} /\ PartsInv => RecordingsSound
<1> SUFFICES ASSUME DoubledTracks = {}, PartsInv PROVE RecordingsSound
  OBVIOUS
<1>1. EstimatorInv => Est!NeverBack
  BY DEF EstimatorInv, Est!NeverBack
<1> QED BY Zenon, <1>1, DiskPlayable, CleanerInTime, ProcessorSound DEF RecordingsSound, PartsInv

LEMMA PartsKeep == DoubledTracks = {} /\ PartsInv => NothingDropped
<1> SUFFICES ASSUME DoubledTracks = {}, PartsInv PROVE NothingDropped
  OBVIOUS
<1>1. RecordingInv => Rec!NothingDropped
  BY DEF RecordingInv, StepInv, Rec!NothingDropped
<1> QED BY Zenon, <1>1, UnitsCount, CertLoaded, ProcessorSound DEF NothingDropped, PartsInv

(* Whatever part runs, its variables keep their types: those of the        *)
(* recorder (and of each file), of a stream, its writers and readers, of   *)
(* commands, the cleaner, a peer connection, the certificate loader, the   *)
(* authentication manager, the estimator and the processor of a format.    *)
THEOREM TypesCorrect ==
    ASSUME DoubledTracks = {}
    PROVE  Spec => []TypeOK
BY PartsAlways, PartsTypes, PTL

(* What a recorder has left on the disk, once its last instance has ended: *)
(* the list is refused only because of a file that could not be written;   *)
(* otherwise each instant that was recorded is in an entry, one entry for  *)
(* each instance (concatenateSegments, Server.onList). What is sent for an *)
(* entry goes on to its end, unless a sample or a part of its last segment *)
(* was lost: then to the end of the parts that are there, or the request   *)
(* fails where a part was torn (seekAndMux). Cleaner.run deletes what has  *)
(* expired within half of recordDeleteAfter; Estimator.Estimate gives no   *)
(* unit an earlier time than the one before, and none of the future; a key *)
(* frame has the parameters that were sent last in front, and nothing      *)
(* missing behind (ProcessUnit, ProcessRTPPacket).                         *)
THEOREM RecordingsCorrect ==
    ASSUME DoubledTracks = {}
    PROVE  Spec => []RecordingsSound
BY PartsAlways, PartsSound, PTL

(* Nothing is lost on the way without being counted: a recorder discards   *)
(* nothing of a track that has begun while the tracks are in step; each    *)
(* unit a reader of a stream was given has been called back, waits in its  *)
(* buffer in order, or was counted as discarded; a certificate that is on  *)
(* disk is the loaded one once all is quiet, unless a change was thrown    *)
(* away because it came too soon after another; each NALU that is encoded  *)
(* again reaches RTSP readers (WriteUnit, CertLoader.run).                 *)
THEOREM NothingLost ==
    ASSUME DoubledTracks = {}
    PROVE  Spec => []NothingDropped
BY PartsAlways, PartsKeep, PTL
================================================================================
