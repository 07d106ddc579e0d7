------------------------------ MODULE RecordCleaner -----------------------------
(***************************************************************************)
(* The cleaner of the recordings (recordcleaner): a goroutine that deletes *)
(* what has expired, at the start and then at intervals, and that takes    *)
(* new configurations.  One path; time in units of which recordDeleteAfter *)
(* is a multiple of two.                                                   *)
(***************************************************************************)
EXTENDS Playback

CONSTANTS
    DeleteAfters,   \* values of recordDeleteAfter; 0 keeps everything
    LongInterval,   \* of the cleaner, when nothing is to be deleted sooner
    LastTime        \* bound: time

CleanerAssumption == DeleteAfters \subseteq Nat /\ LongInterval \in Nat \ {0} /\ LastTime \in Nat

VARIABLES
    cleaner,      \* Cleaner.run: running, ended
    cancelled,    \* the context, which Close cancels
    deleteAfter,  \* Cleaner.PathConfs
    timer,        \* what is left of the interval
    now,
    stored,       \* the segments on disk
    reloaded      \* when the last configuration came

cleanerVars == <<cleaner, cancelled, deleteAfter, timer, now, stored, reloaded>>

CleanInterval(after) == IF after # 0 /\ after \div 2 < LongInterval THEN after \div 2 ELSE LongInterval

(* doRun, processPath.                                                     *)
Cleaned == IF deleteAfter = 0 THEN stored ELSE stored \ Expired(stored, now, deleteAfter)

CleanerInit ==
    /\ cleaner = "running" /\ cancelled = FALSE
    /\ deleteAfter \in DeleteAfters
    /\ timer = CleanInterval(deleteAfter)
    /\ now = 0 /\ stored = {} /\ reloaded = 0

TimePasses ==
    /\ timer > 0 /\ now < LastTime
    /\ timer' = timer - 1 /\ now' = now + 1
    /\ UNCHANGED <<cleaner, cancelled, deleteAfter, stored, reloaded>>
SegmentStored ==
    /\ stored' = stored \cup {[start |-> now]}
    /\ UNCHANGED <<cleaner, cancelled, deleteAfter, timer, now, reloaded>>

(* Mutant: the timer of the new configuration is the one of the old.       *)
DoRun_OldTimer ==
    /\ cleaner = "running" /\ timer = 0
    /\ stored' = Cleaned /\ timer' = LongInterval
    /\ UNCHANGED <<cleaner, cancelled, deleteAfter, now, reloaded>>

DoRun ==
    /\ cleaner = "running" /\ timer = 0
    /\ stored' = Cleaned /\ timer' = CleanInterval(deleteAfter)
    /\ UNCHANGED <<cleaner, cancelled, deleteAfter, now, reloaded>>

(* A new configuration begins a new interval, and nothing is deleted.      *)
ReloadPathConfs ==
    /\ cleaner = "running" /\ ~cancelled
    /\ \E after \in DeleteAfters : deleteAfter' = after /\ timer' = CleanInterval(after)
    /\ reloaded' = now
    /\ UNCHANGED <<cleaner, cancelled, now, stored>>

CleanerClose ==
    /\ ~cancelled /\ cancelled' = TRUE
    /\ UNCHANGED <<cleaner, deleteAfter, timer, now, stored, reloaded>>
CleanerEnds ==
    /\ cleaner = "running" /\ cancelled /\ cleaner' = "ended"
    /\ UNCHANGED <<cancelled, deleteAfter, timer, now, stored, reloaded>>

CleanerGoesOn == DoRun \/ CleanerEnds
CleanerNext == TimePasses \/ SegmentStored \/ CleanerGoesOn \/ ReloadPathConfs \/ CleanerClose

-----------------------------------------------------------------------------
CleanerTypeOK ==
    /\ cleaner \in {"running", "ended"} /\ cancelled \in BOOLEAN
    /\ deleteAfter \in DeleteAfters /\ timer \in 0 .. LongInterval
    /\ now \in 0 .. LastTime /\ reloaded \in 0 .. now
    /\ stored \subseteq [start : 0 .. now]

(* A segment that has expired is deleted within half of recordDeleteAfter  *)
(* of that, or of the last reload, and within the long interval.           *)
CleanedInTime ==
    cleaner = "running" /\ deleteAfter # 0 =>
        \A s \in stored :
            LET due == IF s.start + deleteAfter > reloaded THEN s.start + deleteAfter ELSE reloaded
            IN  now <= due + (deleteAfter \div 2) /\ now <= due + LongInterval
=============================================================================
