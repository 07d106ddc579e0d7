-------------------------------- MODULE Core ---------------------------------
(***************************************************************************)
(* The supervisor (internal/core/core.go): it creates the resources of the *)
(* server, closes and creates again those that a new configuration         *)
(* touches, and closes all of them at the end.  New configurations come    *)
(* from the file (confwatcher) and from the control API, whose handlers    *)
(* run in goroutines of their own; the metrics are scraped meanwhile.      *)
(*                                                                         *)
(* A configuration is the set of the fields that differ from those the     *)
(* server was started with.  Fields that are used and compared by the same *)
(* resources are one field.                                                *)
(***************************************************************************)
EXTENDS Naturals, Sequences, SequencesExt, FiniteSets

CONSTANTS
    MaxEdits,           \* bound: edits of the configuration, by file or API
    LaterEdits,         \* bound: the fields that are edited after the first edit
    ScrapedServers,     \* bound: the servers a scrape is followed into
    PathEditsWithFile   \* bound: path edits by API while a file is watched

-----------------------------------------------------------------------------
(* Resources: what each is created with.                                   *)

CreateOrder == <<"logger", "authManager", "metrics", "pprof", "recordCleaner", "playback",
                 "pathManager", "rtsp", "rtsps", "rtmp", "rtmps", "hls", "webrtc", "srt", "api">>
CloseOrder == <<"api", "srt", "webrtc", "hls", "rtmps", "rtmp", "rtsps", "rtsp", "pathManager",
                "playback", "recordCleaner", "pprof", "metrics", "authManager", "logger">>
Resources == ToSet(CreateOrder)
Servers == {"rtsp", "rtsps", "rtmp", "rtmps", "hls", "webrtc", "srt"}

Common == {"readTimeout", "writeTimeout"}
OnConnect == {"rtspAddress", "runOnConnect"}

(* The fields of the configuration that are given to each resource.        *)
BaseSettings ==
    [logger |-> {"logLevel", "logDestinations"},
     authManager |-> {"authMethod", "authInternalUsers", "readTimeout"},
     metrics |-> Common \cup {"metricsAddress"},
     pprof |-> Common \cup {"pprofAddress"},
     recordCleaner |-> {"paths", "recordDeleteAfter"},
     playback |-> Common \cup {"playbackAddress", "paths", "recordDeleteAfter"},
     pathManager |-> Common \cup {"logLevel", "rtspAddress", "writeQueueSize", "udpReadBufferSize",
                                  "udpMaxPayloadSize", "rtspEncryption", "paths", "recordDeleteAfter"}]

RTSPCommon == Common \cup OnConnect \cup {"rtspAuthMethods", "writeQueueSize", "udpReadBufferSize", "multicastIPRange"}
RTSPSettings ==
    [rtsp |-> RTSPCommon \cup {"rtpAddress"},
     rtsps |-> RTSPCommon \cup {"rtspsAddress", "srtpAddress"}]

RTMPSettings ==
    [rtmp |-> Common \cup OnConnect \cup {"rtmpAddress"},
     rtmps |-> Common \cup OnConnect \cup {"rtmpsAddress"}]

WebSettings ==
    [hls |-> Common \cup {"hlsAddress"},
     webrtc |-> Common \cup {"webrtcAddress", "udpReadBufferSize"},
     srt |-> Common \cup OnConnect \cup {"srtAddress", "udpMaxPayloadSize"},
     api |-> Common \cup {"apiAddress"}]

Settings ==
    [r \in Resources |->
        CASE r \in {"rtsp", "rtsps"} -> RTSPSettings[r]
          [] r \in {"rtmp", "rtmps"} -> RTMPSettings[r]
          [] r \in {"hls", "webrtc", "srt", "api"} -> WebSettings[r]
          [] OTHER -> BaseSettings[r]]

(* The conditions of createResources.                                      *)
Enabled(r, c) ==
    CASE r \in {"metrics", "pprof", "recordCleaner", "playback", "hls", "webrtc", "srt", "api"} ->
             [metrics |-> "metrics", pprof |-> "pprof", recordCleaner |-> "recordDeleteAfter",
              playback |-> "playback", hls |-> "hls", webrtc |-> "webrtc", srt |-> "srt", api |-> "api"][r] \notin c
      [] r = "rtsp" -> c \cap {"rtsp", "rtspEncryption"} = {}
      [] r = "rtsps" -> "rtsp" \notin c
      [] r = "rtmp" -> c \cap {"rtmp", "rtmpEncryption"} = {}
      [] r = "rtmps" -> "rtmp" \notin c
      [] OTHER -> TRUE

(* The resources that are given to each resource.                          *)
Given ==
    [r \in Resources |->
        CASE r \in {"logger", "authManager"} -> {}
          [] r = "recordCleaner" -> {"logger"}
          [] r \in {"metrics", "pprof", "playback"} -> {"logger", "authManager"}
          [] r = "pathManager" -> {"logger", "authManager", "metrics"}
          [] r \in Servers -> {"logger", "metrics", "pathManager"}
          [] r = "api" -> {"logger", "authManager", "pathManager"} \cup Servers]

(* Initialize and Close: the resources that register themselves with r.    *)
Registering ==
    [r \in Resources |->
        CASE r = "metrics" -> {"pathManager"} \cup Servers
          [] r = "pathManager" -> {"hls"}
          [] OTHER -> {}]

CanFail == Resources \ {"authManager", "recordCleaner", "pathManager"}

-----------------------------------------------------------------------------
(* What closeResources compares to decide that a resource is closed.       *)

BaseCompared ==
    [logger |-> {"logLevel", "logDestinations"},
     authManager |-> {"authMethod", "readTimeout"},
     metrics |-> Common \cup {"metrics", "metricsAddress"},
     pprof |-> Common \cup {"pprof", "pprofAddress"},
     recordCleaner |-> {"recordDeleteAfter"},
     playback |-> Common \cup {"playback", "playbackAddress"},
     pathManager |-> Common \cup {"logLevel", "rtspAddress", "writeQueueSize", "udpReadBufferSize",
                                  "udpMaxPayloadSize", "rtspEncryption"}]

RTSPCompared ==
    LET both == Common \cup OnConnect \cup {"rtsp", "rtspEncryption", "rtspAuthMethods", "writeQueueSize",
                                            "udpReadBufferSize"}
    IN  [rtsp |-> both \cup {"rtpAddress", "multicastIPRange"},
         rtsps |-> both \cup {"rtspsAddress"}]

RTMPCompared ==
    [rtmp |-> Common \cup OnConnect \cup {"rtmp", "rtmpEncryption", "rtmpAddress"},
     rtmps |-> Common \cup OnConnect \cup {"rtmp", "rtmpEncryption", "rtmpsAddress"}]

WebCompared ==
    [hls |-> Common \cup {"hls", "hlsAddress"},
     webrtc |-> Common \cup {"webrtc", "webrtcAddress", "udpReadBufferSize"},
     srt |-> Common \cup OnConnect \cup {"srt", "srtAddress", "udpMaxPayloadSize"},
     api |-> Common \cup {"api", "apiAddress"}]

Compared ==
    [r \in Resources |->
        CASE r \in {"rtsp", "rtsps"} -> RTSPCompared[r]
          [] r \in {"rtmp", "rtmps"} -> RTMPCompared[r]
          [] r \in {"hls", "webrtc", "srt", "api"} -> WebCompared[r]
          [] OTHER -> BaseCompared[r]]
Fields == UNION {Settings[r] \cup Compared[r] : r \in Resources}

ASSUME CoreAssumption == MaxEdits \in Nat /\ LaterEdits \subseteq Fields /\ PathEditsWithFile \in BOOLEAN

(* The other flags each flag takes in.                                     *)
(* Mutant: closePathManager does not take in closeMetrics.                 *)
ClosedWith_NoMetrics ==
    [r \in Resources |->
        CASE r = "srt" -> {"logger", "pathManager"}
          [] r = "api" -> {"logger", "authManager", "pathManager"} \cup (Servers \ {"rtmps"})
          [] r = "pathManager" -> {"logger", "authManager"}
          [] OTHER -> Given[r]]

ClosedWith ==
    [r \in Resources |->
        CASE r = "srt" -> {"logger", "pathManager"}
          [] r = "api" -> {"logger", "authManager", "pathManager"} \cup (Servers \ {"rtmps"})
          [] OTHER -> Given[r]]

Differs(old, new) == (old \ new) \cup (new \ old)

(* A flag takes in others, which take in others: no chain is longer.       *)
Flags == [r \in Resources |-> {r} \cup ClosedWith[r] \cup UNION {ClosedWith[q] : q \in ClosedWith[r]}]

CloseFlags(old, new) ==
    {r \in Resources : \E q \in Flags[r] : Compared[q] \cap Differs(old, new) # {}}

(* Fields that a resource that goes on running is told about, if they have *)
(* changed: ReloadInternalUsers, ReloadPathConfs.                          *)
(* Mutant: the playback server is not told about new paths.                *)
HotFields_NoPlayback(r) ==
    CASE r = "authManager" -> {"authInternalUsers"}
      [] r \in {"recordCleaner", "pathManager"} -> {"paths", "recordDeleteAfter"}
      [] OTHER -> {}

HotFields(r) ==
    CASE r = "authManager" -> {"authInternalUsers"}
      [] r \in {"recordCleaner", "playback", "pathManager"} -> {"paths", "recordDeleteAfter"}
      [] OTHER -> {}
HotReloaded(settings, r, new) == (settings \ HotFields(r)) \cup (new \cap HotFields(r))

-----------------------------------------------------------------------------
VARIABLES
    at,        \* Core.run: creating, serving, closing (a reload), ending, ended; crashed after a panic
    conf,      \* p.conf
    object,    \* the resources: settings they run with, resources they refer to
    reload,    \* the closeResources in progress: what is still to be closed, for which configuration
    apiConf,   \* API.Conf of the API that is running
    editor,    \* the handler that is in APIConfigSet with the mutex of the API
    pending,   \* goroutines in APIConfigSet that hold nothing
    watcher,   \* confwatcher.run: none without a file; idle, signalling, failed, ended
    recent,    \* a signal was sent, so that minInterval may not have passed since
    event,     \* an event of the file system that was not read yet
    file,      \* the configuration in the file
    scrape,    \* the server Metrics.onMetrics found set, or nil when it has been unset since
    edits      \* edits so far

watcherVars == <<watcher, recent, event, file>>
apiVars == <<apiConf, editor, pending>>
vars == <<at, conf, object, reload, apiVars, watcherVars, scrape, edits>>

Absent == [live |-> FALSE, settings |-> {}, refs |-> {}, dangling |-> {}]
Object(settings, refs) == [live |-> TRUE, settings |-> settings, refs |-> refs, dangling |-> {}]
IsLive(r) == object[r].live
Live == {r \in Resources : IsLive(r)}

(* tell: the API goes on running and gets the new configuration.           *)
Reload(by, new, closing) ==
    [by |-> by, new |-> new, closing |-> closing,
     tell |-> by = "file" /\ IsLive("api") /\ "api" \notin closing]
NoReload == Reload("none", {}, {})
NoEditor == [conf |-> {}, number |-> 0]
Invalid == {"invalid"}    \* a file that conf.Load refuses

Init ==
    /\ at = "creating"
    /\ conf = {} /\ file = {}
    /\ object = [r \in Resources |-> Absent]
    /\ reload = Reload("initial", {}, {})
    /\ apiConf = {} /\ editor = NoEditor /\ pending = {}
    /\ watcher \in {"none", "idle"}    \* with or without a configuration file
    /\ recent = FALSE /\ event = FALSE
    /\ scrape = "none"
    /\ edits = 0

-----------------------------------------------------------------------------
(* Creation.                                                               *)

(* createResources: in order, until one fails.  What is created registers  *)
(* itself with the metrics and with the path manager.                      *)
Wired(r, live) == (Given[r] \cup Registering[r]) \cap live

Created(failure) ==
    LET before == {CreateOrder[i] : i \in {j \in DOMAIN CreateOrder : \A k \in 1 .. j : CreateOrder[k] # failure}}
        live == Live \cup {r \in before : Enabled(r, conf)}
    IN  [r \in Resources |->
            IF r \notin live THEN Absent
            ELSE IF ~IsLive(r) THEN Object(conf \cap Settings[r], Wired(r, live))
            ELSE [object[r] EXCEPT !.refs = @ \cup (Registering[r] \cap (live \ Live))]]

CreateResources ==
    /\ at = "creating"
    /\ object' = Created("none")
    /\ at' = "serving"
    /\ apiConf' = IF object'["api"].live /\ ~IsLive("api") THEN conf ELSE apiConf
    /\ reload' = NoReload
    /\ UNCHANGED <<conf, editor, pending, watcherVars, scrape, edits>>

(* The end of run: closeResources(nil) of everything, the watcher first.   *)
Shutdown(live) ==
    /\ at' = "ending"
    /\ reload' = Reload("end", {}, live)
    /\ watcher' = IF watcher = "none" THEN "none" ELSE "ended"
    /\ editor' = NoEditor /\ pending' = {}    \* the context of the core is done

(* An error of Initialize.  The error of a reload is logged first, with a  *)
(* logger that is nil when it is the logger that could not be opened.      *)
CreateResourcesFails(r) ==
    /\ at = "creating" /\ r \in CanFail
    /\ Enabled(r, conf) /\ ~IsLive(r)
    /\ object' = Created(r)
    /\ IF r = "logger" /\ reload.by # "initial"
       THEN at' = "crashed" /\ UNCHANGED <<reload, editor, pending, watcher>>
       ELSE Shutdown({q \in Resources : object'[q].live})
    /\ UNCHANGED <<conf, apiConf, recent, event, file, scrape, edits>>

-----------------------------------------------------------------------------
(* Reload.                                                                 *)

(* Mutant: resources that are not there are closed as well.                *)
StartReload_NoNilCheck(by, new) ==
    \E flags \in {CloseFlags(conf, new)} :
        /\ at' = "closing"
        /\ reload' = Reload(by, new, flags)
        /\ object' = [r \in Resources |->
               IF IsLive(r) /\ r \notin flags
               THEN [object[r] EXCEPT !.settings = HotReloaded(@, r, new)]
               ELSE object[r]]

(* The flags, and what goes on running is told about the new paths and     *)
(* users.                                                                  *)
StartReload(by, new) ==
    \E flags \in {CloseFlags(conf, new)} :
        /\ at' = "closing"
        /\ reload' = Reload(by, new, flags \cap Live)
        /\ object' = [r \in Resources |->
               IF IsLive(r) /\ r \notin flags
               THEN [object[r] EXCEPT !.settings = HotReloaded(@, r, new)]
               ELSE object[r]]

(* The watcher's channel yields once per signal, and at any time once it   *)
(* is closed.                                                              *)
ConfChanged ==
    /\ at = "serving"
    /\ watcher \in {"signalling", "failed"}
    /\ IF file = Invalid
       THEN Shutdown(Live) /\ UNCHANGED <<object, recent, event>>
       ELSE /\ StartReload("file", file)
            /\ watcher' = IF watcher = "failed" THEN "failed" ELSE "idle"
            /\ UNCHANGED <<recent, event, editor, pending>>
    /\ UNCHANGED <<conf, apiConf, file, scrape, edits>>

(* APIConfigSet of a goroutine, or of a handler, which then unlocks.       *)
PendingConfigSet(p) ==
    /\ at = "serving" /\ p \in pending
    /\ StartReload("api", p.conf)
    /\ pending' = pending \ {p}
    /\ UNCHANGED <<conf, apiConf, editor, watcherVars, scrape, edits>>
EditorConfigSet ==
    /\ at = "serving" /\ editor # NoEditor
    /\ StartReload("api", editor.conf)
    /\ editor' = NoEditor
    /\ UNCHANGED <<conf, apiConf, pending, watcherVars, scrape, edits>>

Interrupt ==
    /\ at = "serving"
    /\ Shutdown(Live)
    /\ UNCHANGED <<conf, object, apiConf, recent, event, file, scrape, edits>>

(* The first thing done to the API that goes on running, unless it is the  *)
(* one that sent the configuration.  ReloadConf locks the mutex of the API.*)
APIReloadConf ==
    /\ at = "closing" /\ reload.tell
    /\ editor = NoEditor
    /\ apiConf' = reload.new
    /\ reload' = [reload EXCEPT !.tell = FALSE]
    /\ UNCHANGED <<at, conf, object, editor, pending, watcherVars, scrape, edits>>

(* Close of the next resource of the list: it takes back its registrations *)
(* and whoever still refers to it refers to a closed resource.  The HTTP   *)
(* server of the API does not wait for a handler that is in APIConfigSet.  *)
NextToClose(r) ==
    /\ r \in reload.closing
    /\ \E i \in DOMAIN CloseOrder : CloseOrder[i] = r /\ \A j \in 1 .. i - 1 : CloseOrder[j] \notin reload.closing

Closed(r) ==
    [q \in Resources |->
        IF q = r THEN Absent
        ELSE IF r \notin object[q].refs THEN object[q]
        ELSE [object[q] EXCEPT !.refs = @ \ {r}, !.dangling = @ \cup ({r} \ Registering[q])]]

(* Mutant: Close of the API waits for its handlers.                        *)
CloseResource_WaitsForHandlers ==
    /\ at \in {"closing", "ending"} /\ ~reload.tell
    /\ \E r \in reload.closing :
           /\ NextToClose(r) /\ (r = "api" => editor = NoEditor)
           /\ object' = Closed(r)
           /\ reload' = [reload EXCEPT !.closing = @ \ {r}]
           /\ scrape' = IF scrape = r THEN "nil" ELSE scrape
           /\ IF r = "api"
              THEN apiConf' = {} /\ editor' = NoEditor /\ pending' = pending \cup ({editor} \ {NoEditor})
              ELSE UNCHANGED apiVars
    /\ UNCHANGED <<at, conf, watcherVars, edits>>

CloseResource ==
    /\ at \in {"closing", "ending"} /\ ~reload.tell
    /\ \E r \in reload.closing :
           /\ NextToClose(r)
           /\ object' = Closed(r)
           /\ reload' = [reload EXCEPT !.closing = @ \ {r}]
           /\ scrape' = IF scrape = r THEN "nil" ELSE scrape
           /\ IF r = "api"
              THEN apiConf' = {} /\ editor' = NoEditor /\ pending' = pending \cup ({editor} \ {NoEditor})
              ELSE UNCHANGED apiVars
    /\ UNCHANGED <<at, conf, watcherVars, edits>>

(* p.conf = newConf; then createResources.                                 *)
ResourcesClosed ==
    /\ reload.closing = {} /\ ~reload.tell
    /\ \/ at = "closing" /\ at' = "creating" /\ conf' = reload.new
       \/ at = "ending" /\ at' = "ended" /\ UNCHANGED conf
    /\ UNCHANGED <<object, reload, apiVars, watcherVars, scrape, edits>>

-----------------------------------------------------------------------------
(* The handlers of the API that edit the configuration: under the mutex, a *)
(* copy of API.Conf is edited, validated and kept.                         *)

EditedFields == IF edits = 0 THEN Fields ELSE LaterEdits
Edited(c, f) == IF f \in c THEN c \ {f} ELSE c \cup {f}
PathFields == {"paths", "recordDeleteAfter"}
CanEdit == edits < MaxEdits /\ at \notin {"ending", "crashed"} /\ IsLive("api") /\ editor = NoEditor

(* onConfigGlobalPatch: sent by a goroutine, after the mutex is unlocked.  *)
OnConfigGlobalPatch ==
    /\ CanEdit
    /\ \E f \in EditedFields \ PathFields :
           /\ apiConf' = Edited(apiConf, f)
           /\ pending' = pending \cup {[conf |-> apiConf', number |-> edits + 1]}
    /\ edits' = edits + 1
    /\ UNCHANGED <<at, conf, object, reload, editor, watcherVars, scrape>>

(* onConfigPathDefaultsPatch, onConfigPathsAdd, ...Patch, ...Replace,      *)
(* ...Delete: sent by the handler, with the mutex.                         *)
OnConfigPathsEdit ==
    /\ CanEdit
    /\ watcher = "none" \/ PathEditsWithFile
    /\ \E f \in EditedFields \cap PathFields :
           /\ apiConf' = Edited(apiConf, f)
           /\ editor' = [conf |-> apiConf', number |-> edits + 1]
    /\ edits' = edits + 1
    /\ UNCHANGED <<at, conf, object, reload, pending, watcherVars, scrape>>

-----------------------------------------------------------------------------
(* The configuration file and its watcher.                                 *)

FileWritten ==
    /\ edits < MaxEdits /\ at # "crashed" /\ watcher \notin {"none", "ended"}
    /\ file' \in {Edited(file \ Invalid, f) : f \in EditedFields} \cup {Invalid}
    /\ event' = (watcher # "failed")
    /\ edits' = edits + 1
    /\ UNCHANGED <<at, conf, object, reload, apiVars, watcher, recent, scrape>>

(* run: an event within minInterval of the last signal is thrown away.     *)
WatcherEvent ==
    /\ at # "crashed" /\ watcher = "idle" /\ event
    /\ event' = FALSE
    /\ \/ watcher' = "signalling" /\ recent' = TRUE
       \/ recent /\ UNCHANGED <<watcher, recent>>
    /\ UNCHANGED <<at, conf, object, reload, apiVars, file, scrape, edits>>

(* An error of the notifications: the watcher closes its channel.          *)
WatcherError ==
    /\ at # "crashed" /\ watcher = "idle" /\ watcher' = "failed"
    /\ UNCHANGED <<at, conf, object, reload, apiVars, recent, event, file, scrape, edits>>

-----------------------------------------------------------------------------
(* Metrics.onMetrics, without the mutex that guards the fields it reads: a *)
(* nil path manager, or a server that is unset after it was found, is a    *)
(* panic, and handlerExitOnPanic ends the process.                         *)

ScrapeBegins ==
    /\ at # "crashed" /\ IsLive("metrics") /\ scrape = "none"
    /\ IF "pathManager" \in object["metrics"].refs
       THEN /\ \E s \in object["metrics"].refs \cap ScrapedServers : scrape' = s
            /\ UNCHANGED at
       ELSE at' = "crashed" /\ UNCHANGED scrape
    /\ UNCHANGED <<conf, object, reload, apiVars, watcherVars, edits>>
ScrapeEnds ==
    /\ at # "crashed" /\ scrape # "none"
    /\ scrape' = "none"
    /\ at' = IF scrape = "nil" THEN "crashed" ELSE at
    /\ UNCHANGED <<conf, object, reload, apiVars, watcherVars, edits>>

-----------------------------------------------------------------------------
CloseStep == CloseResource \/ APIReloadConf \/ ResourcesClosed
ConfigSet == EditorConfigSet \/ \E p \in pending : PendingConfigSet(p)
WatcherStep == WatcherEvent \/ WatcherError

Next ==
    \/ CreateResources \/ \E r \in Resources : CreateResourcesFails(r)
    \/ CloseStep
    \/ ConfChanged \/ ConfigSet \/ Interrupt
    \/ OnConfigGlobalPatch \/ OnConfigPathsEdit
    \/ FileWritten \/ WatcherStep
    \/ ScrapeBegins \/ ScrapeEnds

Spec == Init /\ [][Next]_vars

(* The goroutine of the core goes on with what it has begun.               *)
FairSpec ==
    /\ Spec
    /\ WF_vars(CloseStep)

-----------------------------------------------------------------------------
(* Properties.                                                             *)

IsConf(c) == c \subseteq Fields

(* Type invariant.                                                         *)
TypeOK ==
    /\ at \in {"creating", "serving", "closing", "ending", "ended", "crashed"}
    /\ IsConf(conf) /\ IsConf(apiConf) /\ (IsConf(file) \/ file = Invalid)
    /\ \A r \in Resources :
           /\ object[r].live \in BOOLEAN
           /\ object[r].settings \subseteq Settings[r]
           /\ object[r].refs \cup object[r].dangling \subseteq Resources
    /\ reload.by \in {"none", "initial", "file", "api", "end"} /\ IsConf(reload.new)
    /\ reload.closing \subseteq Live /\ reload.tell \in BOOLEAN
    /\ \A p \in pending \cup {editor} : IsConf(p.conf) /\ p.number \in 0 .. MaxEdits
    /\ watcher \in {"none", "idle", "signalling", "failed", "ended"}
    /\ recent \in BOOLEAN /\ event \in BOOLEAN
    /\ scrape \in Resources \cup {"none", "nil"}
    /\ edits \in 0 .. MaxEdits

(* At no moment of a reload or of the end does a resource that is running  *)
(* refer to one that was closed: dependents are closed first, and whatever *)
(* registered itself has taken that back.  The API is the exception: it    *)
(* keeps an RTMPS server that was closed alone (closeAPI does not take in  *)
(* closeRTMPSServer).                                                      *)
NoDanglingReference ==
    \A r \in Resources : object[r].dangling \subseteq (IF r = "api" THEN {"rtmps"} ELSE {})

(* The resources as a start with this configuration would create them.     *)
Fresh ==
    LET live == {r \in Resources : Enabled(r, conf)}
    IN  [r \in Resources |->
            IF r \in live THEN Object(conf \cap Settings[r], Wired(r, live)) ELSE Absent]

(* What closeResources leaves out: fields only the RTSPS server is given.  *)
NotCompared(r) == IF r = "rtsps" THEN {"srtpAddress", "multicastIPRange"} ELSE {}

(* After any sequence of reloads the server is what a start with the last  *)
(* configuration would make it: the resources it enables, with the current *)
(* settings, wired to each other; up to the fields and the reference that  *)
(* closeResources forgets.                                                 *)
ReloadedLikeRestarted ==
    at = "serving" =>
        LET fresh == Fresh
        IN  \A r \in Resources :
                /\ object[r].live = fresh[r].live
                /\ Differs(object[r].settings, fresh[r].settings) \subseteq NotCompared(r)
                /\ Differs(object[r].refs, fresh[r].refs) \subseteq (IF r = "api" THEN {"rtmps"} ELSE {})

(* docs: "Changes are detected and applied".  Every reload that has begun  *)
(* comes to an end: the core waits for nobody that waits for the core.     *)
ReloadsEnd ==
    at = "closing" ~> at # "closing"
=============================================================================
