--------------------------------- MODULE Stream ---------------------------------
(***************************************************************************)
(* A stream and its readers (stream): the writers of its formats hold the  *)
(* mutex for reading and put units into the queue of every reader, whose   *)
(* goroutine calls back; readers come and go with the mutex held for       *)
(* writing.  The reader waits in RemoveReader for its goroutine.           *)
(***************************************************************************)
EXTENDS Integers, SequencesExt

CONSTANTS
    Readers,      \* stream.Reader, each used once
    Formats,      \* of the stream, each with a writer
    QueueSize,    \* WriteQueueSize
    MaxUnits      \* bound: units of all formats

QueueAssumption == QueueSize \in Nat \ {0}

VARIABLES
    mutex,     \* Stream.mutex
    writer,    \* WriteUnit, WriteRTPPacket of each format: where, the unit, the readers it has still to be given to
    stats,     \* BytesSent: idle, waiting
    reader,    \* the owner of each reader
    buffer,    \* of each reader: its queue, and whether it is closed
    routine,   \* Reader.run
    account    \* of each reader: what became of the units it was given

streamVars == <<mutex, writer, stats, reader, buffer, routine, account>>

StreamInit ==
    /\ mutex = [reading |-> {}, pending |-> {}, held |-> {}]
    /\ writer = [f \in Formats |-> [at |-> "idle", unit |-> 0, todo |-> {}]]
    /\ stats = "idle"
    /\ reader = [r \in Readers |-> "out"]
    /\ buffer = [r \in Readers |-> [queue |-> <<>>, closed |-> FALSE]]
    /\ routine = [r \in Readers |-> "none"]
    /\ account = [r \in Readers |-> [given |-> 0, called |-> 0, discarded |-> 0, last |-> [f \in Formats |-> 0]]]

-----------------------------------------------------------------------------
(* sync.RWMutex: whoever waits to write keeps new readers out.             *)
CanRLock == mutex.held = {} /\ mutex.pending = {}
CanLock(r) == r \in mutex.pending /\ mutex.held = {} /\ mutex.reading = {}
OnData == {r \in Readers : reader[r] \in {"in", "failed", "removing", "stopping"}}    \* sf.onDatas

(* WriteUnit, WriteRTPPacket: processed, then pushed to each reader.       *)
WriteBegins(f) ==
    /\ writer[f].at = "idle" /\ FoldFunction(+, 0, [w \in Formats |-> writer[w].unit]) < MaxUnits
    /\ writer' = [writer EXCEPT ![f] = [at |-> "waiting", unit |-> @.unit + 1, todo |-> {}]]
    /\ UNCHANGED <<mutex, stats, reader, buffer, routine, account>>
WriteLocked(f) ==
    /\ writer[f].at = "waiting" /\ CanRLock
    /\ \E processed \in BOOLEAN :
           writer' = [writer EXCEPT ![f].at = "writing", ![f].todo = IF processed THEN OnData ELSE {}]
    /\ mutex' = [mutex EXCEPT !.reading = @ \cup {f}]
    /\ UNCHANGED <<stats, reader, buffer, routine, account>>

(* Mutant: what does not fit is thrown away without a trace.               *)
Push_Silently(f, r) ==
    /\ writer[f].at = "writing" /\ r \in writer[f].todo
    /\ writer' = [writer EXCEPT ![f].todo = @ \ {r}]
    /\ buffer' = IF Len(buffer[r].queue) < QueueSize
                 THEN [buffer EXCEPT ![r].queue = Append(@, [format |-> f, unit |-> writer[f].unit])]
                 ELSE buffer
    /\ account' = [account EXCEPT ![r].given = @ + 1]
    /\ UNCHANGED <<mutex, stats, reader, routine>>

(* Reader.push: what does not fit is discarded, and counted.               *)
Push(f, r) ==
    /\ writer[f].at = "writing" /\ r \in writer[f].todo
    /\ writer' = [writer EXCEPT ![f].todo = @ \ {r}]
    /\ IF Len(buffer[r].queue) < QueueSize
       THEN /\ buffer' = [buffer EXCEPT ![r].queue = Append(@, [format |-> f, unit |-> writer[f].unit])]
            /\ account' = [account EXCEPT ![r].given = @ + 1]
       ELSE /\ account' = [account EXCEPT ![r].given = @ + 1, ![r].discarded = @ + 1]
            /\ UNCHANGED buffer
    /\ UNCHANGED <<mutex, stats, reader, routine>>
WriteReturns(f) ==
    /\ writer[f].at = "writing" /\ writer[f].todo = {}
    /\ writer' = [writer EXCEPT ![f].at = "idle"]
    /\ mutex' = [mutex EXCEPT !.reading = @ \ {f}]
    /\ UNCHANGED <<stats, reader, buffer, routine, account>>

(* BytesSent: the path, for the API.                                       *)
BytesSent ==
    /\ stats = "idle" /\ stats' = "waiting"
    /\ UNCHANGED <<mutex, writer, reader, buffer, routine, account>>
BytesSentReturns ==
    /\ stats = "waiting" /\ CanRLock /\ stats' = "idle"
    /\ UNCHANGED <<mutex, writer, reader, buffer, routine, account>>

-----------------------------------------------------------------------------
(* The owner of a reader.                                                  *)
Locks(r) == mutex' = [mutex EXCEPT !.pending = @ \cup {r}]
AddReader(r) ==
    /\ reader[r] = "out" /\ Locks(r)
    /\ reader' = [reader EXCEPT ![r] = "adding"]
    /\ UNCHANGED <<writer, stats, buffer, routine, account>>
AddReaderReturns(r) ==
    /\ reader[r] = "adding" /\ CanLock(r)
    /\ mutex' = [mutex EXCEPT !.pending = @ \ {r}]
    /\ reader' = [reader EXCEPT ![r] = "in"]
    /\ routine' = [routine EXCEPT ![r] = "pulling"]
    /\ UNCHANGED <<writer, stats, buffer, account>>

(* Reader.Error, which the owner listens to.                               *)
ErrorTaken(r) ==
    /\ reader[r] = "in" /\ routine[r] = "failing"
    /\ reader' = [reader EXCEPT ![r] = "failed"]
    /\ routine' = [routine EXCEPT ![r] = "ended"]
    /\ UNCHANGED <<mutex, writer, stats, buffer, account>>

(* After an error, or whenever the owner is told to go.                    *)
RemoveReader(r) ==
    /\ reader[r] \in {"in", "failed"} /\ Locks(r)
    /\ reader' = [reader EXCEPT ![r] = "removing"]
    /\ UNCHANGED <<writer, stats, buffer, routine, account>>

(* Mutant: the goroutine is told to end and not waited for.                *)
Stop_NoWait(r) ==
    /\ reader[r] = "removing" /\ CanLock(r)
    /\ mutex' = [mutex EXCEPT !.pending = @ \ {r}]
    /\ reader' = [reader EXCEPT ![r] = "gone"]
    /\ buffer' = [buffer EXCEPT ![r].closed = TRUE]
    /\ UNCHANGED <<writer, stats, routine, account>>

Stop(r) ==
    /\ reader[r] = "removing" /\ CanLock(r)
    /\ mutex' = [mutex EXCEPT !.pending = @ \ {r}, !.held = {r}]
    /\ reader' = [reader EXCEPT ![r] = "stopping"]
    /\ buffer' = [buffer EXCEPT ![r].closed = TRUE]
    /\ UNCHANGED <<writer, stats, routine, account>>

(* Mutant: only the error itself is waited for, which the owner may have.  *)
RemoveReaderReturns_NeedsError(r) ==
    /\ reader[r] = "stopping" /\ routine[r] = "failing"
    /\ routine' = [routine EXCEPT ![r] = "ended"]
    /\ reader' = [reader EXCEPT ![r] = "gone"]
    /\ mutex' = [mutex EXCEPT !.held = {}]
    /\ UNCHANGED <<writer, stats, buffer, account>>

(* <-r.err: the error, or the channel closed after it was taken.           *)
RemoveReaderReturns(r) ==
    /\ reader[r] = "stopping" /\ routine[r] \in {"failing", "ended"}
    /\ routine' = [routine EXCEPT ![r] = "ended"]
    /\ reader' = [reader EXCEPT ![r] = "gone"]
    /\ mutex' = [mutex EXCEPT !.held = {}]
    /\ UNCHANGED <<writer, stats, buffer, account>>

-----------------------------------------------------------------------------
(* Reader.runInner.  What a closed buffer still gives is left open.        *)
PullUnit(r) ==
    /\ routine[r] = "pulling" /\ buffer[r].queue # <<>>
    /\ buffer' = [buffer EXCEPT ![r].queue = Tail(@)]
    /\ routine' = [routine EXCEPT ![r] = "calling"]
    /\ account' = [account EXCEPT ![r].called = @ + 1, ![r].last[Head(buffer[r].queue).format] = Head(buffer[r].queue).unit]
    /\ UNCHANGED <<mutex, writer, stats, reader>>
PullClosed(r) ==
    /\ routine[r] = "pulling" /\ buffer[r].closed
    /\ routine' = [routine EXCEPT ![r] = "failing"]
    /\ UNCHANGED <<mutex, writer, stats, reader, buffer, account>>
CallbackReturns(r) ==
    /\ routine[r] = "calling"
    /\ \E to \in {"pulling", "failing"} : routine' = [routine EXCEPT ![r] = to]
    /\ UNCHANGED <<mutex, writer, stats, reader, buffer, account>>

WriterGoesOn(f) == WriteLocked(f) \/ (\E r \in Readers : Push(f, r)) \/ WriteReturns(f)
OwnerGoesOn(r) ==
    \/ AddReaderReturns(r) \/ ErrorTaken(r) \/ Stop(r) \/ RemoveReaderReturns(r)
    \/ reader[r] = "failed" /\ RemoveReader(r)
RoutineGoesOn(r) == PullUnit(r) \/ PullClosed(r) \/ CallbackReturns(r)
StreamNext ==
    \/ \E f \in Formats : WriteBegins(f) \/ WriterGoesOn(f)
    \/ BytesSent \/ BytesSentReturns
    \/ \E r \in Readers : AddReader(r) \/ OwnerGoesOn(r) \/ RemoveReader(r) \/ RoutineGoesOn(r)

-----------------------------------------------------------------------------
StreamTypeOK ==
    /\ mutex \in [reading : SUBSET Formats, pending : SUBSET Readers, held : SUBSET Readers]
    /\ writer \in [Formats -> [at : {"idle", "waiting", "writing"}, unit : Nat, todo : SUBSET Readers]]
    /\ stats \in {"idle", "waiting"}
    /\ reader \in [Readers -> {"out", "adding", "in", "failed", "removing", "stopping", "gone"}]
    /\ routine \in [Readers -> {"none", "pulling", "calling", "failing", "ended"}]
    /\ \A r \in Readers : Len(buffer[r].queue) <= QueueSize /\ buffer[r].closed \in BOOLEAN

(* Once RemoveReader has returned the callback of the reader is not        *)
(* running and will not run again, and no writer has anything for it.      *)
GoneForGood(r) == reader[r] = "gone" => routine[r] = "ended" /\ \A f \in Formats : r \notin writer[f].todo

(* Every unit given to a reader is called back, waits in the queue or is   *)
(* counted as discarded; those of a format come in the order in which they *)
(* were written.                                                           *)
EveryUnitCounts(r) ==
    LET queue == buffer[r].queue IN
    /\ account[r].given = account[r].called + account[r].discarded + Len(queue)
    /\ \A i \in DOMAIN queue :
           /\ account[r].last[queue[i].format] < queue[i].unit
           /\ \A j \in 1 .. i - 1 : queue[j].format = queue[i].format => queue[j].unit < queue[i].unit
=============================================================================
