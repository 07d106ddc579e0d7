-------------------------------- MODULE Path --------------------------------
(***************************************************************************)
(* One path of the server (internal/core/path.go): a goroutine that owns   *)
(* the source, the stream, the readers and the requests on hold of one     *)
(* path name, and serves one message at a time.                            *)
(*                                                                         *)
(* A message is handled by one action, the trailing shouldClose() check of *)
(* runInner included.  Clients (readers, describers, publishers, the       *)
(* instance of the static source) meet the path on unbuffered channels, so *)
(* sending a request and taking it is one step too; a client that finds    *)
(* the context of the path done is answered without the path.              *)
(***************************************************************************)
EXTENDS Integers, Sequences, FiniteSets

CONSTANTS
    Readers,      \* clients that read (RTSP, RTMP, SRT, WebRTC, HLS muxer...)
    Describers,   \* clients that ask for a description
    Publishers,   \* clients that publish
    Streams,      \* identities of stream.Stream objects
    Confs,        \* configurations the path may be created with or reloaded to
    Settings,     \* values of the recording settings
    Nobody,       \* no source
    HandlerSrc,   \* the staticsources.Handler of the path, as a source
    RedirectSrc,  \* the sourceRedirect of the path, as a source
    NoStream, NoRecord, NoRecorder,
    InitCanFail   \* whether stream.Initialize() may return an error

SourceKind == {"publisher", "static", "redirect"}

(* The fields of conf.Path that the path reads, reduced to what they tell apart. *)
PathConf == [source: SourceKind, sourceOnDemand: BOOLEAN, runOnDemand: BOOLEAN,
             overridePublisher: BOOLEAN, maxReaders: Nat, fallback: BOOLEAN,
             regexp: BOOLEAN, record: Settings \cup {NoRecord}]

(* What conf.Path.validate accepts, of these fields. *)
ValidConf(c) ==
    /\ c.source = "static" /\ c.regexp => c.sourceOnDemand
    /\ c.source = "publisher" => ~c.sourceOnDemand
    /\ c.runOnDemand => c.source = "publisher"

ASSUME ConfsAssumption ==
    /\ Confs \subseteq PathConf
    /\ \A c \in Confs : ValidConf(c)

ASSUME NamesAssumption ==
    /\ Nobody \notin Publishers /\ HandlerSrc \notin Publishers /\ RedirectSrc \notin Publishers
    /\ Nobody # HandlerSrc /\ Nobody # RedirectSrc /\ HandlerSrc # RedirectSrc
    /\ NoStream \notin Streams /\ NoRecord \notin Settings
    /\ NoRecorder \notin [stream: Streams, setting: Settings]
    /\ InitCanFail \in BOOLEAN

ASSUME ReadersAssumption == IsFiniteSet(Readers)

HasStaticSource(c) == c.source \notin {"publisher", "redirect"}
HasOnDemandStaticSource(c) == HasStaticSource(c) /\ c.sourceOnDemand
HasOnDemandPublisher(c) == c.runOnDemand

(* pathConfCanBeUpdated: everything but the name, the regexp and the       *)
(* recording settings (and camera settings, which the path ignores) forces *)
(* the path to be recreated.                                               *)
CanBeUpdated(old, new) ==
    new = [old EXCEPT !.regexp = new.regexp, !.record = new.record]

VARIABLES
    conf,             \* pa.conf
    phase,            \* where pa.run is
    ctxDone,          \* pa.ctx is done
    source,           \* pa.source
    stream,           \* pa.stream
    openStreams,      \* streams that were initialized and not closed
    recorder,         \* pa.recorder: what it reads and the settings it has
    onNotReadyHook,   \* pa.onNotReadyHook: never set, to be called, already called
    onUnDemandHook,   \* pa.onUnDemandHook is not nil: the command was started
    readers,          \* pa.readers
    describeRequestsOnHold,
    readerAddRequestsOnHold,
    staticState,      \* pa.onDemandStaticSourceState
    staticReadyTimer, \* pa.onDemandStaticSourceReadyTimer is armed
    staticCloseTimer,
    publisherState,   \* pa.onDemandPublisherState
    publisherReadyTimer,
    publisherCloseTimer,
    handler,          \* the Handler: stopped, running, or running with a ready instance
    rdState,          \* what each reader is doing
    rdStream,         \* the stream the path gave to each reader
    closedReaders,    \* the path called Close() on the reader
    descState,        \* what each describer is doing
    pubState,         \* what each publisher is doing
    closedPublishers  \* the path called Close() on the publisher

demandVars == <<staticState, staticReadyTimer, staticCloseTimer, handler>>
pubDemandVars == <<publisherState, publisherReadyTimer, publisherCloseTimer, onUnDemandHook>>
streamVars == <<stream, openStreams, recorder, onNotReadyHook>>
holdVars == <<describeRequestsOnHold, readerAddRequestsOnHold>>
readerVars == <<readers, rdState, rdStream, closedReaders>>
publisherVars == <<pubState, closedPublishers>>
vars == <<conf, phase, ctxDone, source, streamVars, demandVars, pubDemandVars,
          holdVars, readerVars, descState, publisherVars>>

OnDemandState == {"initial", "waitingReady", "ready", "closing"}

RangeOf(q) == {q[i] : i \in DOMAIN q}
NoRepeats(q) == \A i, j \in DOMAIN q : q[i] = q[j] => i = j
HeldReaders == RangeOf(readerAddRequestsOnHold)
HeldDescribers == RangeOf(describeRequestsOnHold)

(* A Stream object nothing refers to any more stands for a new one. *)
FreshStreams ==
    Streams \ ({stream, IF recorder = NoRecorder THEN NoStream ELSE recorder.stream}
               \cup openStreams \cup {rdStream[r] : r \in Readers})

-----------------------------------------------------------------------------
(* Creation: the first part of run().  A static source that is not on      *)
(* demand is started at once.                                              *)

Init ==
    /\ conf \in Confs
    /\ phase = "running"
    /\ ctxDone = FALSE
    /\ source = CASE conf.source = "redirect" -> RedirectSrc
                  [] HasStaticSource(conf) -> HandlerSrc
                  [] OTHER -> Nobody
    /\ stream = NoStream /\ openStreams = {} /\ recorder = NoRecorder
    /\ onNotReadyHook = "nil" /\ onUnDemandHook = FALSE
    /\ readers = {}
    /\ describeRequestsOnHold = <<>> /\ readerAddRequestsOnHold = <<>>
    /\ staticState = "initial" /\ publisherState = "initial"
    /\ staticReadyTimer = FALSE /\ staticCloseTimer = FALSE
    /\ publisherReadyTimer = FALSE /\ publisherCloseTimer = FALSE
    /\ handler = IF HasStaticSource(conf) /\ ~conf.sourceOnDemand THEN "starting" ELSE "stopped"
    /\ rdState = [r \in Readers |-> "idle"]
    /\ rdStream = [r \in Readers |-> NoStream]
    /\ closedReaders = {}
    /\ descState = [d \in Describers |-> "idle"]
    /\ pubState = [p \in Publishers |-> "idle"]
    /\ closedPublishers = {}

-----------------------------------------------------------------------------
(* Helpers.  Each assigns the variables of one part of the state.          *)

ShouldClose ==
    /\ conf.regexp
    /\ source = Nobody
    /\ readers = {}
    /\ describeRequestsOnHold = <<>>
    /\ readerAddRequestsOnHold = <<>>

(* runInner goes on, returns "not in use", or the process dies of a panic. *)
(* Faulty variant: a handler that never checks. *)
Continue_NoCheck(panics, checksUse) ==
    phase' = IF panics THEN "crashed" ELSE phase

Continue(panics, checksUse) ==
    phase' = IF panics THEN "crashed"
             ELSE IF checksUse /\ ShouldClose' THEN "closing" ELSE phase

(* Handler.Start and Handler.Stop panic when the handler is, or is not, running. *)
StartPanics == handler # "stopped"
StopPanics == handler = "stopped"

(* Faulty variant: the ready timer is not armed. *)
OnDemandStaticSourceStart_NoTimer ==
    /\ handler' = "starting"
    /\ staticState' = "waitingReady"
    /\ UNCHANGED <<staticReadyTimer, staticCloseTimer>>

OnDemandStaticSourceStart ==
    /\ handler' = "starting"
    /\ staticReadyTimer' = TRUE
    /\ staticState' = "waitingReady"
    /\ UNCHANGED staticCloseTimer

(* Faulty variant: the close timer is left armed. *)
OnDemandStaticSourceStop_KeepsTimer ==
    /\ UNCHANGED staticCloseTimer
    /\ staticState' = "initial"
    /\ handler' = "stopped"

(* The ready timer is left to the callers. *)
OnDemandStaticSourceStop ==
    /\ staticCloseTimer' = (staticCloseTimer /\ staticState # "closing")
    /\ staticState' = "initial"
    /\ handler' = "stopped"

OnDemandPublisherStart ==
    /\ onUnDemandHook' = TRUE
    /\ publisherReadyTimer' = TRUE
    /\ publisherState' = "waitingReady"
    /\ UNCHANGED publisherCloseTimer

(* Calls the hook, which panics when it is nil. *)
OnDemandPublisherStop ==
    /\ publisherCloseTimer' = (publisherCloseTimer /\ publisherState # "closing")
    /\ onUnDemandHook' = FALSE
    /\ publisherState' = "initial"

(* Faulty variant: readers are forgotten, not closed. *)
SetNotReady_NoClose ==
    /\ readers' = {}
    /\ UNCHANGED closedReaders
    /\ onNotReadyHook' = IF onNotReadyHook = "armed" THEN "spent" ELSE onNotReadyHook
    /\ recorder' = NoRecorder
    /\ openStreams' = openStreams \ {stream}
    /\ stream' = NoStream

(* setNotReady closes every registered reader and forgets them, calls the  *)
(* hook (a nil one panics), closes the recorder and the stream.            *)
NotReadyPanics == onNotReadyHook = "nil"

SetNotReady ==
    /\ readers' = {}
    /\ closedReaders' = closedReaders \cup readers
    /\ onNotReadyHook' = IF onNotReadyHook = "armed" THEN "spent" ELSE onNotReadyHook
    /\ recorder' = NoRecorder
    /\ openStreams' = openStreams \ {stream}
    /\ stream' = NoStream

(* Faulty variant: the `record` flag is not looked at. *)
RecorderOf_Always(s, c) == [stream |-> s, setting |-> c.record]

RecorderOf(s, c) ==
    IF c.record = NoRecord THEN NoRecorder ELSE [stream |-> s, setting |-> c.record]

(* setReady, when the stream could be initialized; `open` are the streams  *)
(* that are open when it is called.                                        *)
SetReady(s, open) ==
    /\ stream' = s
    /\ openStreams' = open \cup {s}
    /\ recorder' = RecorderOf(s, conf)
    /\ onNotReadyHook' = "armed"

(* Faulty variant: the list of readers on hold is not emptied. *)
FailHeld_KeepsList ==
    /\ describeRequestsOnHold' = <<>> /\ UNCHANGED readerAddRequestsOnHold
    /\ descState' = [d \in Describers |-> IF d \in HeldDescribers THEN "idle" ELSE descState[d]]
    /\ rdState' = [r \in Readers |->
          IF r \notin HeldReaders THEN rdState[r]
          ELSE IF rdStream[r] = NoStream THEN "idle" ELSE "reading"]

(* Answering every request on hold with an error.  A session that already  *)
(* had a stream (RTSP, second SETUP) keeps it until it is closed.          *)
FailHeld ==
    /\ describeRequestsOnHold' = <<>> /\ readerAddRequestsOnHold' = <<>>
    /\ descState' = [d \in Describers |-> IF d \in HeldDescribers THEN "idle" ELSE descState[d]]
    /\ rdState' = [r \in Readers |->
          IF r \notin HeldReaders THEN rdState[r]
          ELSE IF rdStream[r] = NoStream THEN "idle" ELSE "reading"]

(* Faulty variant: one reader too many. *)
FreeSlots_OffByOne(base) ==
    IF conf.maxReaders = 0 THEN Len(readerAddRequestsOnHold)
    ELSE conf.maxReaders - Cardinality(base) + 1

(* How many of the requests on hold addReaderPost accepts, and of whom,    *)
(* starting from the readers `base`.                                       *)
FreeSlots(base) ==
    IF conf.maxReaders = 0 THEN Len(readerAddRequestsOnHold)
    ELSE conf.maxReaders - Cardinality(base)

AdmittedHeld(base) ==
    {readerAddRequestsOnHold[i] :
        i \in {j \in DOMAIN readerAddRequestsOnHold : j <= FreeSlots(base)}}

(* Faulty variant: describers are not served. *)
ConsumeOnHoldRequests_ReadersOnly(base, s) ==
    /\ readerAddRequestsOnHold' = <<>>
    /\ UNCHANGED <<describeRequestsOnHold, descState>>
    /\ readers' = base \cup AdmittedHeld(base)
    /\ rdState' = [r \in Readers |->
          IF r \notin HeldReaders THEN rdState[r]
          ELSE IF r \in AdmittedHeld(base) \/ rdStream[r] # NoStream THEN "reading" ELSE "idle"]
    /\ rdStream' = [r \in Readers |-> IF r \in AdmittedHeld(base) THEN s ELSE rdStream[r]]

(* consumeOnHoldRequests: describers get the stream; readers are accepted  *)
(* in order until the path is full, the others get an error.               *)
ConsumeOnHoldRequests(base, s) ==
    /\ describeRequestsOnHold' = <<>> /\ readerAddRequestsOnHold' = <<>>
    /\ descState' = [d \in Describers |-> IF d \in HeldDescribers THEN "idle" ELSE descState[d]]
    /\ readers' = base \cup AdmittedHeld(base)
    /\ rdState' = [r \in Readers |->
          IF r \notin HeldReaders THEN rdState[r]
          ELSE IF r \in AdmittedHeld(base) \/ rdStream[r] # NoStream THEN "reading" ELSE "idle"]
    /\ rdStream' = [r \in Readers |-> IF r \in AdmittedHeld(base) THEN s ELSE rdStream[r]]

-----------------------------------------------------------------------------
(* Timers of the on-demand static source.                                  *)

DoOnDemandStaticSourceReadyTimer ==
    /\ phase = "running" /\ staticReadyTimer
    /\ staticReadyTimer' = FALSE
    /\ FailHeld
    /\ OnDemandStaticSourceStop
    /\ UNCHANGED <<conf, ctxDone, source, streamVars, pubDemandVars, readers, rdStream,
                   closedReaders, publisherVars>>
    /\ Continue(StopPanics, TRUE)

DoOnDemandStaticSourceCloseTimer ==
    /\ phase = "running" /\ staticCloseTimer
    /\ staticCloseTimer' = FALSE
    /\ SetNotReady
    /\ staticState' = "initial" /\ handler' = "stopped"
    /\ UNCHANGED <<conf, ctxDone, source, staticReadyTimer, pubDemandVars, holdVars,
                   rdState, rdStream, descState, publisherVars>>
    /\ Continue(NotReadyPanics \/ StopPanics, TRUE)

-----------------------------------------------------------------------------
(* Timers of the on-demand publisher.  runInner checks shouldClose() after *)
(* the first one only.                                                     *)

DoOnDemandPublisherReadyTimer ==
    /\ phase = "running" /\ publisherReadyTimer
    /\ publisherReadyTimer' = FALSE
    /\ FailHeld
    /\ OnDemandPublisherStop
    /\ UNCHANGED <<conf, ctxDone, source, streamVars, demandVars, readers, rdStream,
                   closedReaders, publisherVars>>
    /\ Continue(~onUnDemandHook, TRUE)

DoOnDemandPublisherCloseTimer ==
    /\ phase = "running" /\ publisherCloseTimer
    /\ publisherCloseTimer' = FALSE
    /\ onUnDemandHook' = FALSE /\ publisherState' = "initial"
    /\ UNCHANGED <<conf, ctxDone, source, streamVars, demandVars, publisherReadyTimer,
                   holdVars, readerVars, descState, publisherVars>>
    /\ Continue(~onUnDemandHook, FALSE)

-----------------------------------------------------------------------------
(* The configuration is replaced.  A recorder whose settings changed is    *)
(* closed; one is started if recording is on, there is a stream and no     *)
(* recorder runs.                                                          *)

(* Faulty variant: a running recorder is never restarted. *)
RecorderAfterReload_KeepsOld(newConf) ==
    IF recorder # NoRecorder /\ newConf.record # NoRecord THEN recorder
    ELSE IF stream # NoStream THEN RecorderOf(stream, newConf)
    ELSE NoRecorder

RecorderAfterReload(newConf) ==
    IF recorder # NoRecorder /\ newConf.record = conf.record THEN recorder
    ELSE IF stream # NoStream THEN RecorderOf(stream, newConf)
    ELSE NoRecorder

DoReloadConf(newConf) ==
    /\ phase = "running"
    /\ CanBeUpdated(conf, newConf)
    /\ conf' = newConf
    /\ recorder' = RecorderAfterReload(newConf)
    /\ UNCHANGED <<phase, ctxDone, source, stream, openStreams, onNotReadyHook, demandVars,
                   pubDemandVars, holdVars, readerVars, descState, publisherVars>>

-----------------------------------------------------------------------------
(* The instance of the static source.  It reports ready only while the     *)
(* handler runs and after the previous report was undone.                  *)

DoSourceStaticSetReady(s) ==
    /\ phase = "running" /\ handler = "starting"
    /\ SetReady(s, openStreams)
    /\ handler' = "ready"
    /\ ConsumeOnHoldRequests(readers, s)
    /\ IF HasOnDemandStaticSource(conf)
         THEN /\ staticReadyTimer' = FALSE
              /\ staticState' = IF AdmittedHeld(readers) # {} THEN "ready" ELSE "closing"
              /\ staticCloseTimer' = (AdmittedHeld(readers) = {})
         ELSE UNCHANGED <<staticState, staticReadyTimer, staticCloseTimer>>
    /\ UNCHANGED <<conf, phase, ctxDone, source, pubDemandVars, closedReaders, publisherVars>>

(* setReady returns the error of stream.Initialize() after it assigned     *)
(* pa.stream; the handler is told, and starts a new instance later.        *)
DoSourceStaticSetReadyFails(s) ==
    /\ InitCanFail
    /\ phase = "running" /\ handler = "starting"
    /\ stream' = s
    /\ openStreams' = openStreams \cup {s}
    /\ UNCHANGED <<conf, phase, ctxDone, source, recorder, onNotReadyHook, demandVars,
                   pubDemandVars, holdVars, readerVars, descState, publisherVars>>

DoSourceStaticSetNotReady ==
    /\ phase = "running" /\ handler = "ready"
    /\ SetNotReady
    /\ IF HasOnDemandStaticSource(conf) /\ staticState # "initial"
         THEN OnDemandStaticSourceStop
         ELSE handler' = "starting" /\ UNCHANGED <<staticState, staticCloseTimer>>
    /\ UNCHANGED <<conf, ctxDone, source, staticReadyTimer, pubDemandVars, holdVars,
                   rdState, rdStream, descState, publisherVars>>
    /\ Continue(NotReadyPanics, TRUE)

-----------------------------------------------------------------------------
(* Holding a request starts the on-demand source or command unless it was  *)
(* started already.                                                        *)

Holds == HasOnDemandStaticSource(conf) \/ HasOnDemandPublisher(conf)

StartOnDemand ==
    /\ IF HasOnDemandStaticSource(conf) /\ staticState = "initial"
         THEN OnDemandStaticSourceStart ELSE UNCHANGED demandVars
    /\ IF ~HasOnDemandStaticSource(conf) /\ publisherState = "initial"
         THEN OnDemandPublisherStart ELSE UNCHANGED pubDemandVars

StartOnDemandPanics ==
    HasOnDemandStaticSource(conf) /\ staticState = "initial" /\ StartPanics

(* A redirect, the stream, the fallback or an error is the answer. *)
DoDescribeAnswered(d) ==
    /\ phase = "running" /\ descState[d] = "idle"
    /\ source = RedirectSrc \/ stream # NoStream \/ ~Holds
    /\ UNCHANGED <<conf, ctxDone, source, streamVars, demandVars, pubDemandVars, holdVars,
                   readerVars, descState, publisherVars>>
    /\ Continue(FALSE, TRUE)

DoDescribeHeld(d) ==
    /\ phase = "running" /\ descState[d] = "idle"
    /\ source # RedirectSrc /\ stream = NoStream /\ Holds
    /\ descState' = [descState EXCEPT ![d] = "waiting"]
    /\ describeRequestsOnHold' = Append(describeRequestsOnHold, d)
    /\ StartOnDemand
    /\ UNCHANGED <<conf, ctxDone, source, streamVars, readerAddRequestsOnHold, readerVars,
                   publisherVars>>
    /\ Continue(StartOnDemandPanics, TRUE)

-----------------------------------------------------------------------------
(* Readers.  A client asks when it is new, or again for its next track     *)
(* (RTSP sends one SETUP per track, each adds the session).                *)

MayAsk(r) == rdState[r] \in {"idle", "reading"}

Full == conf.maxReaders # 0 /\ Cardinality(readers) >= conf.maxReaders

(* Faulty variant: the scheduled stop is not cancelled. *)
KeepsSource_Never(r) == FALSE

(* addReaderPost: a new reader keeps an on-demand source, or command, that *)
(* was about to be stopped.                                                *)
KeepsSource(r) ==
    r \notin readers /\ HasOnDemandStaticSource(conf) /\ staticState = "closing"

KeepsCommand(r) ==
    /\ r \notin readers
    /\ ~HasOnDemandStaticSource(conf) /\ HasOnDemandPublisher(conf)
    /\ publisherState = "closing"

DoAddReaderAccepted(r) ==
    /\ phase = "running" /\ MayAsk(r) /\ stream # NoStream
    /\ r \in readers \/ ~Full
    /\ readers' = readers \cup {r}
    /\ rdState' = [rdState EXCEPT ![r] = "reading"]
    /\ rdStream' = [rdStream EXCEPT ![r] = stream]
    /\ staticState' = IF KeepsSource(r) THEN "ready" ELSE staticState
    /\ staticCloseTimer' = (staticCloseTimer /\ ~KeepsSource(r))
    /\ publisherState' = IF KeepsCommand(r) THEN "ready" ELSE publisherState
    /\ publisherCloseTimer' = (publisherCloseTimer /\ ~KeepsCommand(r))
    /\ UNCHANGED <<conf, ctxDone, source, streamVars, staticReadyTimer, handler,
                   publisherReadyTimer, onUnDemandHook, holdVars, closedReaders, descState,
                   publisherVars>>
    /\ Continue(FALSE, TRUE)

(* No stream is available, or the path is full: the client gets an error.  *)
DoAddReaderRefused(r) ==
    /\ phase = "running" /\ MayAsk(r)
    /\ IF stream = NoStream THEN ~Holds ELSE Full /\ r \notin readers
    /\ UNCHANGED <<conf, ctxDone, source, streamVars, demandVars, pubDemandVars, holdVars,
                   readerVars, descState, publisherVars>>
    /\ Continue(FALSE, TRUE)

DoAddReaderHeld(r) ==
    /\ phase = "running" /\ MayAsk(r)
    /\ stream = NoStream /\ Holds
    /\ rdState' = [rdState EXCEPT ![r] = "waiting"]
    /\ readerAddRequestsOnHold' = Append(readerAddRequestsOnHold, r)
    /\ StartOnDemand
    /\ UNCHANGED <<conf, ctxDone, source, streamVars, describeRequestsOnHold, readers, rdStream,
                   closedReaders, descState, publisherVars>>
    /\ Continue(StartOnDemandPanics, TRUE)

(* Faulty variant: the stop is not scheduled. *)
LeavesCommand_Never(r) == FALSE

(* Without readers left, an on-demand source or command that is ready is   *)
(* scheduled to be stopped.                                                *)
LeavesSource(r) ==
    /\ readers \subseteq {r}
    /\ HasOnDemandStaticSource(conf) /\ staticState = "ready"

LeavesCommand(r) ==
    /\ readers \subseteq {r}
    /\ ~HasOnDemandStaticSource(conf) /\ HasOnDemandPublisher(conf)
    /\ publisherState = "ready"

(* A reader leaves, on its own or because it was closed; the client is     *)
(* free to come back as a new session.                                     *)
DoRemoveReader(r) ==
    /\ phase = "running" /\ rdState[r] = "reading"
    /\ readers' = readers \ {r}
    /\ rdState' = [rdState EXCEPT ![r] = "idle"]
    /\ rdStream' = [rdStream EXCEPT ![r] = NoStream]
    /\ closedReaders' = closedReaders \ {r}
    /\ staticState' = IF LeavesSource(r) THEN "closing" ELSE staticState
    /\ staticCloseTimer' = (staticCloseTimer \/ LeavesSource(r))
    /\ publisherState' = IF LeavesCommand(r) THEN "closing" ELSE publisherState
    /\ publisherCloseTimer' = (publisherCloseTimer \/ LeavesCommand(r))
    /\ UNCHANGED <<conf, phase, ctxDone, source, streamVars, staticReadyTimer, handler,
                   publisherReadyTimer, onUnDemandHook, holdVars, descState, publisherVars>>

(* RemoveReader of a client that finds pa.ctx done.  The client is gone.   *)
RemoveReaderSkipped(r) ==
    /\ ctxDone /\ phase # "crashed" /\ rdState[r] = "reading"
    /\ rdState' = [rdState EXCEPT ![r] = "gone"]
    /\ UNCHANGED <<conf, phase, ctxDone, source, streamVars, demandVars, pubDemandVars, holdVars,
                   readers, rdStream, closedReaders, descState, publisherVars>>

-----------------------------------------------------------------------------
(* Publishers.                                                             *)

MayPublish(p) ==
    /\ phase = "running" /\ pubState[p] = "idle"
    /\ conf.source = "publisher"
    /\ source = Nobody \/ conf.overridePublisher

(* Faulty variant: the readers of the previous publisher stay. *)
RemovedReaders_None == {}

(* Override: the previous publisher is closed and removed, its readers too. *)
Overridden == source \in Publishers
RemovedReaders == IF Overridden /\ stream # NoStream THEN readers ELSE {}
OpenAfterOverride == IF Overridden THEN openStreams \ {stream} ELSE openStreams
OverridePanics == Overridden /\ stream # NoStream /\ NotReadyPanics

DoAddPublisher(p, s) ==
    /\ MayPublish(p)
    /\ source' = p
    /\ SetReady(s, OpenAfterOverride)
    /\ closedReaders' = closedReaders \cup RemovedReaders
    /\ pubState' = [pubState EXCEPT ![p] = "publishing"]
    /\ closedPublishers' = closedPublishers \cup ({source} \cap Publishers)
    /\ LET base == readers \ RemovedReaders
       IN  /\ ConsumeOnHoldRequests(base, s)
           /\ IF HasOnDemandPublisher(conf) /\ publisherState # "initial"
                THEN /\ publisherReadyTimer' = FALSE
                     /\ publisherState' = IF AdmittedHeld(base) # {} THEN "ready" ELSE "closing"
                     /\ publisherCloseTimer' = (AdmittedHeld(base) = {})
                ELSE UNCHANGED <<publisherState, publisherReadyTimer, publisherCloseTimer>>
    /\ UNCHANGED <<conf, ctxDone, demandVars, onUnDemandHook>>
    /\ Continue(OverridePanics, FALSE)

(* The stream of the new publisher cannot be initialized: pa.source is     *)
(* reset, pa.stream is not.                                                *)
DoAddPublisherFails(p, s) ==
    /\ InitCanFail
    /\ MayPublish(p)
    /\ source' = Nobody
    /\ stream' = s
    /\ openStreams' = OpenAfterOverride \cup {s}
    /\ IF Overridden /\ stream # NoStream
         THEN /\ recorder' = NoRecorder
              /\ onNotReadyHook' = IF onNotReadyHook = "armed" THEN "spent" ELSE onNotReadyHook
         ELSE UNCHANGED <<recorder, onNotReadyHook>>
    /\ readers' = readers \ RemovedReaders
    /\ closedReaders' = closedReaders \cup RemovedReaders
    /\ closedPublishers' = closedPublishers \cup ({source} \cap Publishers)
    /\ UNCHANGED <<conf, ctxDone, demandVars, pubDemandVars, holdVars, rdState, rdStream,
                   descState, pubState>>
    /\ Continue(OverridePanics, FALSE)

(* Faulty variant: whoever asks is taken for the source. *)
IsSource_Anyone(p) == TRUE

(* Only the current source is removed: the request of a publisher that was *)
(* overridden changes nothing.                                             *)
IsSource(p) == source = p
TakesDown(p) == IsSource(p) /\ stream # NoStream

DoRemovePublisher(p) ==
    /\ phase = "running" /\ pubState[p] = "publishing"
    /\ pubState' = [pubState EXCEPT ![p] = "idle"]
    /\ closedPublishers' = closedPublishers \ {p}
    /\ source' = IF IsSource(p) THEN Nobody ELSE source
    /\ IF TakesDown(p) THEN SetNotReady ELSE UNCHANGED <<streamVars, readers, closedReaders>>
    /\ UNCHANGED <<conf, ctxDone, demandVars, pubDemandVars, holdVars, rdState, rdStream,
                   descState>>
    /\ Continue(TakesDown(p) /\ NotReadyPanics, TRUE)

RemovePublisherSkipped(p) ==
    /\ ctxDone /\ phase # "crashed" /\ pubState[p] = "publishing"
    /\ pubState' = [pubState EXCEPT ![p] = "gone"]
    /\ UNCHANGED <<conf, phase, ctxDone, source, streamVars, demandVars, pubDemandVars, holdVars,
                   readerVars, descState, closedPublishers>>

-----------------------------------------------------------------------------
(* Termination.                                                            *)

(* path.close(), or the context of the path manager is done. *)
Close ==
    /\ phase \in {"running", "closing"} /\ ~ctxDone
    /\ ctxDone' = TRUE
    /\ UNCHANGED <<conf, phase, source, streamVars, demandVars, pubDemandVars, holdVars,
                   readerVars, descState, publisherVars>>

(* Faulty variant: a path in use goes on. *)
RunInnerTerminated_Unused ==
    /\ phase = "running" /\ ctxDone /\ readers = {}
    /\ phase' = "closing"
    /\ UNCHANGED <<conf, ctxDone, source, streamVars, demandVars, pubDemandVars, holdVars,
                   readerVars, descState, publisherVars>>

(* runInner sees the context done; until then it may serve requests. *)
RunInnerTerminated ==
    /\ phase = "running" /\ ctxDone
    /\ phase' = "closing"
    /\ UNCHANGED <<conf, ctxDone, source, streamVars, demandVars, pubDemandVars, holdVars,
                   readerVars, descState, publisherVars>>

(* The manager is told that the path closes, then the context is cancelled. *)
ClosePath ==
    /\ phase = "closing"
    /\ phase' = "terminating" /\ ctxDone' = TRUE
    /\ UNCHANGED <<conf, source, streamVars, demandVars, pubDemandVars, holdVars, readerVars,
                   descState, publisherVars>>

(* Faulty variants: a source that was not started is closed; an on-demand  *)
(* source that was started is not.                                         *)
SourceMustBeClosed_Always == source = HandlerSrc
SourceMustBeClosed_NotOnDemand == source = HandlerSrc /\ ~conf.sourceOnDemand

SourceMustBeClosed ==
    source = HandlerSrc /\ (~conf.sourceOnDemand \/ staticState # "initial")

(* The rest of run(): timers, requests on hold, stream, source, command. *)
Terminate ==
    /\ phase = "terminating"
    /\ staticReadyTimer' = FALSE /\ staticCloseTimer' = FALSE
    /\ publisherReadyTimer' = FALSE /\ publisherCloseTimer' = FALSE
    /\ FailHeld
    /\ IF stream # NoStream THEN SetNotReady ELSE UNCHANGED <<streamVars, readers, closedReaders>>
    /\ handler' = IF SourceMustBeClosed THEN "stopped" ELSE handler
    /\ closedPublishers' = closedPublishers \cup ({source} \cap Publishers)
    /\ onUnDemandHook' = FALSE
    /\ phase' = IF (stream # NoStream /\ NotReadyPanics) \/ (SourceMustBeClosed /\ StopPanics)
                THEN "crashed" ELSE "destroyed"
    /\ UNCHANGED <<conf, ctxDone, source, staticState, publisherState, rdStream, pubState>>

-----------------------------------------------------------------------------
ReaderStep(r) ==
    \/ DoAddReaderAccepted(r) \/ DoAddReaderRefused(r) \/ DoAddReaderHeld(r)
    \/ DoRemoveReader(r) \/ RemoveReaderSkipped(r)

PublisherStep(p) ==
    \/ \E s \in FreshStreams : DoAddPublisher(p, s) \/ DoAddPublisherFails(p, s)
    \/ DoRemovePublisher(p) \/ RemovePublisherSkipped(p)

SourceStep ==
    \/ \E s \in FreshStreams : DoSourceStaticSetReady(s) \/ DoSourceStaticSetReadyFails(s)
    \/ DoSourceStaticSetNotReady

TimerStep ==
    \/ DoOnDemandStaticSourceReadyTimer \/ DoOnDemandStaticSourceCloseTimer
    \/ DoOnDemandPublisherReadyTimer \/ DoOnDemandPublisherCloseTimer

(* The goroutine has returned, or the process is dead. *)
Ended == phase \in {"destroyed", "crashed"} /\ UNCHANGED vars

ShutdownStep == Close \/ RunInnerTerminated \/ ClosePath \/ Terminate

Next ==
    \/ \E r \in Readers : ReaderStep(r)
    \/ \E d \in Describers : DoDescribeAnswered(d) \/ DoDescribeHeld(d)
    \/ \E p \in Publishers : PublisherStep(p)
    \/ \E c \in Confs : DoReloadConf(c)
    \/ SourceStep
    \/ TimerStep
    \/ ShutdownStep
    \/ Ended

Spec == Init /\ [][Next]_vars

(* A timer that is armed fires unless it is stopped; a reader that was     *)
(* closed returns from its loop and calls RemoveReader; a goroutine whose  *)
(* context is done sees it.  Nothing obliges a source to become ready, a   *)
(* publisher to come, or an open reader to leave.                          *)
Fairness ==
    /\ WF_vars(DoOnDemandStaticSourceReadyTimer)
    /\ WF_vars(DoOnDemandStaticSourceCloseTimer)
    /\ WF_vars(DoOnDemandPublisherReadyTimer)
    /\ WF_vars(DoOnDemandPublisherCloseTimer)
    /\ WF_vars(RunInnerTerminated)
    /\ WF_vars(ClosePath)
    /\ WF_vars(Terminate)
    /\ \A r \in Readers : WF_vars(r \in closedReaders /\ (DoRemoveReader(r) \/ RemoveReaderSkipped(r)))

FairSpec == Spec /\ Fairness

-----------------------------------------------------------------------------
(* Type correctness of every variable: the path, its stream, its timers    *)
(* and hooks, and the clients it talks to.                                 *)
CoreTypeOK ==
    /\ conf \in Confs
    /\ phase \in {"running", "closing", "terminating", "destroyed", "crashed"}
    /\ ctxDone \in BOOLEAN
    /\ source \in Publishers \cup {Nobody, HandlerSrc, RedirectSrc}
    /\ pubState \in [Publishers -> {"idle", "publishing", "gone"}]
    /\ closedPublishers \in SUBSET Publishers

StreamTypeOK ==
    /\ stream \in Streams \cup {NoStream}
    /\ openStreams \in SUBSET Streams
    /\ recorder \in [stream: Streams, setting: Settings] \cup {NoRecorder}
    /\ onNotReadyHook \in {"nil", "armed", "spent"}

DemandTypeOK ==
    /\ staticState \in OnDemandState /\ publisherState \in OnDemandState
    /\ staticReadyTimer \in BOOLEAN /\ staticCloseTimer \in BOOLEAN
    /\ publisherReadyTimer \in BOOLEAN /\ publisherCloseTimer \in BOOLEAN
    /\ handler \in {"stopped", "starting", "ready"}
    /\ onUnDemandHook \in BOOLEAN

HoldTypeOK ==
    /\ describeRequestsOnHold \in Seq(Describers)
    /\ readerAddRequestsOnHold \in Seq(Readers)
    /\ descState \in [Describers -> {"idle", "waiting"}]

ReaderTypeOK ==
    /\ readers \in SUBSET Readers
    /\ rdState \in [Readers -> {"idle", "waiting", "reading", "gone"}]
    /\ rdStream \in [Readers -> Streams \cup {NoStream}]
    /\ closedReaders \in SUBSET Readers

TypeOK == CoreTypeOK /\ StreamTypeOK /\ DemandTypeOK /\ HoldTypeOK /\ ReaderTypeOK

Alive == phase \notin {"destroyed", "crashed"}

(* A reader the path did not close holds the stream that is live now, and  *)
(* is one of the readers the path counts: no override, error, timeout or   *)
(* reload leaves it on the stream of a source that is gone.                *)
ReadersShareLiveStream ==
    \A r \in Readers : rdState[r] = "reading" /\ r \notin closedReaders =>
        r \in readers /\ stream # NoStream /\ rdStream[r] = stream

(* A publisher that believes it publishes, and was not told otherwise, is  *)
(* the source of the live stream: two publishers never feed the path, and  *)
(* the late removal of an overridden one does not take the new one down.   *)
PublisherIsSource ==
    \A p \in Publishers : pubState[p] = "publishing" /\ p \notin closedPublishers =>
        source = p /\ stream # NoStream

(* A client waits exactly when its request is on hold, once: no request is *)
(* forgotten (the client would block for ever on its reply) and none is    *)
(* answered twice (the path would block for ever on the reply).            *)
HeldExactlyOnce ==
    /\ \A r \in Readers : rdState[r] = "waiting" <=> r \in HeldReaders
    /\ \A d \in Describers : descState[d] = "waiting" <=> d \in HeldDescribers
    /\ NoRepeats(readerAddRequestsOnHold) /\ NoRepeats(describeRequestsOnHold)

SomeoneOnHold == describeRequestsOnHold # <<>> \/ readerAddRequestsOnHold # <<>>

(* Nobody is kept waiting while there is a stream to be had... *)
NoHoldWhileLive == SomeoneOnHold => stream = NoStream

(* ...and whoever waits for an on-demand static source waits for a timer   *)
(* that is armed: sourceOnDemandStartTimeout bounds the wait.              *)
StaticHoldHasDeadline ==
    phase = "running" /\ HasOnDemandStaticSource(conf) /\ SomeoneOnHold =>
        staticState = "waitingReady" /\ staticReadyTimer

(* A request is on hold for a reason, and not for ever.                    *)
HoldIsJustified == NoHoldWhileLive /\ StaticHoldHasDeadline

(* The timers follow the on-demand states: a timer left armed would stop a *)
(* source that is in use, a timer left unarmed would never stop it.        *)
TimersFollowDemand ==
    Alive =>
        /\ staticReadyTimer <=> staticState = "waitingReady"
        /\ staticCloseTimer <=> staticState = "closing"
        /\ publisherReadyTimer <=> publisherState = "waitingReady"
        /\ publisherCloseTimer <=> publisherState = "closing"

(* A source or a command about to be stopped has no reader; a source that  *)
(* is ready and not about to be stopped has one.                           *)
ClosingOnlyUnused ==
    /\ staticState = "closing" \/ publisherState = "closing" => readers = {}
    /\ Alive /\ staticState = "ready" => readers # {}

(* No step panics: the handler is started only when stopped and stopped    *)
(* only when running ("should not happen" in Handler.Start and .Stop), and *)
(* no nil hook is called.                                                  *)
NoPanic == phase # "crashed"

(* The not-ready hook is pending exactly while there is a stream, so that  *)
(* every "ready" is followed by exactly one "not ready"; and no Stream     *)
(* object but the current one is left open.                                *)
HookFollowsStream ==
    /\ onNotReadyHook = "armed" <=> stream # NoStream
    /\ openStreams = {stream} \ {NoStream}

(* A recorder runs exactly when recording is on and there is a stream; it  *)
(* reads the current stream with the current settings, reloads included.   *)
RecorderFollowsConf ==
    recorder = IF stream = NoStream THEN NoRecorder ELSE RecorderOf(stream, conf)

(* maxReaders holds, also when several requests on hold are served at once. *)
ReaderLimit == conf.maxReaders # 0 => Cardinality(readers) <= conf.maxReaders

(* A stream has someone behind it: the instance of the static source, or a *)
(* publisher.                                                              *)
LiveHasSource ==
    Alive /\ stream # NoStream =>
        \/ source = HandlerSrc /\ handler = "ready"
        \/ source \in Publishers /\ pubState[source] \in {"publishing", "gone"}

(* The stream, the hook that announces its end, the recorder that reads it *)
(* and the source that feeds it come and go together.                      *)
StreamIsWhole == HookFollowsStream /\ RecorderFollowsConf /\ LiveHasSource

(* mediamtx_comment.yml:444 of sourceOnDemandStartTimeout: readers are on  *)
(* hold until the source is ready or this time passes.  After a failed     *)
(* setReady the code gives them the stream of a source that is not ready.  *)
ReadOnlyWhenSourceReady ==
    Alive /\ HasOnDemandStaticSource(conf) =>
        \A r \in Readers : rdState[r] = "reading" /\ r \notin closedReaders => handler = "ready"

(* A destroyed path leaves nothing behind: no client waiting or reading    *)
(* without having been closed, no open stream, recorder, source instance   *)
(* or on-demand command, no pending hook.                                  *)
CleanEnd ==
    phase = "destroyed" =>
        /\ ~SomeoneOnHold
        /\ \A r \in Readers : rdState[r] = "reading" => r \in closedReaders
        /\ \A p \in Publishers : pubState[p] = "publishing" => p \in closedPublishers
        /\ openStreams = {} /\ recorder = NoRecorder /\ handler = "stopped"
        /\ ~onUnDemandHook /\ onNotReadyHook # "armed"

(* The step that makes a path of a regexp configuration unused ends it, in *)
(* whatever handler it happens (not all of them check).                    *)
UnusedPathCloses ==
    [][phase = "running" /\ ~ShouldClose /\ ShouldClose' /\ conf' = conf
       => phase' = "closing"]_vars

(* The path as a StreamBroker: a reader watches the stream it was given    *)
(* until it leaves or is closed.                                           *)
Watching ==
    [r \in Readers |-> IF rdState[r] = "reading" /\ r \notin closedReaders THEN rdStream[r] ELSE NoStream]

Broker == INSTANCE StreamBroker WITH live <- stream, watching <- Watching

(* Every step of the path is a step of the broker, or none.                *)
ImplementsBroker == Broker!BrokerSpec

-----------------------------------------------------------------------------
(* Whoever waits for an on-demand static source is answered, with the      *)
(* stream or with an error: the source may never become ready, the path    *)
(* may be closed meanwhile.                                                *)
StaticHoldAnswered ==
    /\ \A r \in Readers :
          (HasOnDemandStaticSource(conf) /\ rdState[r] = "waiting") ~> (rdState[r] # "waiting")
    /\ \A d \in Describers :
          (HasOnDemandStaticSource(conf) /\ descState[d] = "waiting") ~> (descState[d] # "waiting")

(* An on-demand source or command that nobody reads or waits for is        *)
(* stopped, unless somebody comes.                                         *)
Unused == readers = {} /\ ~SomeoneOnHold

IdleSourceStops ==
    (HasOnDemandStaticSource(conf) /\ handler # "stopped" /\ Unused)
        ~> (handler = "stopped" \/ ~Unused)

IdleCommandStops == (onUnDemandHook /\ Unused) ~> (~onUnDemandHook \/ ~Unused)

(* A path that is told to close ends: it is destroyed, or dies of the      *)
(* panic that a failed setReady prepares.                                  *)
ClosedPathEnds == ctxDone ~> ~Alive

(* Nothing that is over stays: the source or the command nobody uses is    *)
(* stopped, and the path that was told to close ends.                      *)
WhatIsOverEnds == IdleSourceStops /\ IdleCommandStops /\ ClosedPathEnds

=============================================================================
