----------------------------- MODULE CoreProofs ------------------------------
(***************************************************************************)
(* Proofs about the supervisor (Core).  First what its tables say: which   *)
(* settings closeResources compares, what is closed with what, and in      *)
(* which order.  Then the inductive invariant, which says of every moment  *)
(* of a reload who refers to whom and what the resources that go on        *)
(* running have of the configuration that is being applied.                *)
(***************************************************************************)
EXTENDS Core, TLAPS

-----------------------------------------------------------------------------
LEMMA ResourcesAre ==
    Resources = {"logger", "authManager", "metrics", "pprof", "recordCleaner", "playback", "pathManager",
                 "rtsp", "rtsps", "rtmp", "rtmps", "hls", "webrtc", "srt", "api"}
  BY DEF Resources, ToSet, CreateOrder

(* What a resource is given is compared, hot reloaded, or forgotten.       *)
LEMMA SettingsCompared ==
    ASSUME NEW r \in Resources
    PROVE  Settings[r] \subseteq Compared[r] \cup HotFields(r) \cup NotCompared(r)
<1> USE DEF Settings, Compared, HotFields, NotCompared, Common
<1>1. CASE r \in {"rtsp", "rtsps"}
  BY <1>1 DEF RTSPSettings, RTSPCompared, RTSPCommon, OnConnect
<1>2. CASE r \in {"rtmp", "rtmps"}
  BY <1>2 DEF RTMPSettings, RTMPCompared, OnConnect
<1>3. CASE r \in {"hls", "webrtc", "srt", "api"}
  BY <1>3 DEF WebSettings, WebCompared, OnConnect
<1>4. CASE r \in {"logger", "authManager", "metrics", "pprof", "recordCleaner", "playback", "pathManager"}
  BY <1>4 DEF BaseSettings, BaseCompared
<1> QED BY <1>1, <1>2, <1>3, <1>4, ResourcesAre

(* Whether a resource is enabled depends on what is compared.              *)
LEMMA EnabledCompared ==
    ASSUME NEW r \in Resources, NEW c, NEW d, Compared[r] \cap Differs(c, d) = {}
    PROVE  Enabled(r, c) <=> Enabled(r, d)
<1> USE DEF Compared, Enabled, Differs
<1>1. CASE r \in {"rtsp", "rtsps"}
  BY <1>1 DEF RTSPCompared
<1>2. CASE r \in {"rtmp", "rtmps"}
  BY <1>2 DEF RTMPCompared
<1>3. CASE r \in {"hls", "webrtc", "srt", "api"}
  BY <1>3 DEF WebCompared
<1>4. CASE r \in {"logger", "authManager", "metrics", "pprof", "recordCleaner", "playback", "pathManager"}
  BY <1>4 DEF BaseCompared
<1> QED BY <1>1, <1>2, <1>3, <1>4, ResourcesAre

(* What is closed when a resource is.                                      *)
LEMMA ClosedWithAre ==
    /\ ClosedWith["logger"] = {} /\ ClosedWith["authManager"] = {} /\ ClosedWith["recordCleaner"] = {"logger"}
    /\ \A r \in {"metrics", "pprof", "playback"} : ClosedWith[r] = {"logger", "authManager"}
    /\ ClosedWith["pathManager"] = {"logger", "authManager", "metrics"}
    /\ ClosedWith["srt"] = {"logger", "pathManager"}
    /\ \A r \in Servers \ {"srt"} : ClosedWith[r] = {"logger", "metrics", "pathManager"}
    /\ ClosedWith["api"] = {"logger", "authManager", "pathManager"} \cup (Servers \ {"rtmps"})
<1> USE ResourcesAre DEF ClosedWith, Given, Servers
<1>1. ClosedWith["logger"] = {} /\ ClosedWith["authManager"] = {} /\ ClosedWith["recordCleaner"] = {"logger"}
  OBVIOUS
<1>2. \A r \in {"metrics", "pprof", "playback"} : ClosedWith[r] = {"logger", "authManager"}
  OBVIOUS
<1>3. ClosedWith["pathManager"] = {"logger", "authManager", "metrics"}
  OBVIOUS
<1>4. ClosedWith["srt"] = {"logger", "pathManager"}
  OBVIOUS
<1>5. \A r \in Servers \ {"srt"} : ClosedWith[r] = {"logger", "metrics", "pathManager"}
  OBVIOUS
<1>6. ClosedWith["api"] = {"logger", "authManager", "pathManager"} \cup (Servers \ {"rtmps"})
  OBVIOUS
<1> HIDE DEF ClosedWith
<1> QED BY <1>1, <1>2, <1>3, <1>4, <1>5, <1>6

LEMMA FlagsAre ==
    /\ Flags["logger"] = {"logger"} /\ Flags["authManager"] = {"authManager"}
    /\ Flags["recordCleaner"] = {"recordCleaner", "logger"}
    /\ \A r \in {"metrics", "pprof", "playback"} : Flags[r] = {r, "logger", "authManager"}
    /\ Flags["pathManager"] = {"pathManager", "logger", "authManager", "metrics"}
    /\ \A r \in Servers : Flags[r] = {r, "logger", "authManager", "metrics", "pathManager"}
    /\ Flags["api"] = {"api", "logger", "authManager", "metrics", "pathManager"} \cup (Servers \ {"rtmps"})
<1>0. \A r \in Resources : Flags[r] = {r} \cup ClosedWith[r] \cup UNION {ClosedWith[q] : q \in ClosedWith[r]}
  BY DEF Flags
<1> USE <1>0, ResourcesAre, ClosedWithAre
<1>1. Flags["logger"] = {"logger"} /\ Flags["authManager"] = {"authManager"}
  OBVIOUS
<1>2. Flags["recordCleaner"] = {"recordCleaner", "logger"}
  OBVIOUS
<1>3. \A r \in {"metrics", "pprof", "playback"} : Flags[r] = {r, "logger", "authManager"}
  OBVIOUS
<1>4. Flags["pathManager"] = {"pathManager", "logger", "authManager", "metrics"}
  OBVIOUS
<1>5. \A r \in Servers : Flags[r] = {r, "logger", "authManager", "metrics", "pathManager"}
  BY DEF Servers
<1>6. Flags["api"] = {"api", "logger", "authManager", "metrics", "pathManager"} \cup (Servers \ {"rtmps"})
  BY DEF Servers
<1> QED BY <1>1, <1>2, <1>3, <1>4, <1>5, <1>6

LEMMA GivenAre ==
    /\ Given["logger"] = {} /\ Given["authManager"] = {} /\ Given["recordCleaner"] = {"logger"}
    /\ \A r \in {"metrics", "pprof", "playback"} : Given[r] = {"logger", "authManager"}
    /\ Given["pathManager"] = {"logger", "authManager", "metrics"}
    /\ \A r \in Servers : Given[r] = {"logger", "metrics", "pathManager"}
    /\ Given["api"] = {"logger", "authManager", "pathManager"} \cup Servers
<1> USE ResourcesAre DEF Given, Servers
<1>1. Given["logger"] = {} /\ Given["authManager"] = {} /\ Given["recordCleaner"] = {"logger"}
  OBVIOUS
<1>2. \A r \in {"metrics", "pprof", "playback"} : Given[r] = {"logger", "authManager"}
  OBVIOUS
<1>3. Given["pathManager"] = {"logger", "authManager", "metrics"}
  OBVIOUS
<1>4. \A r \in Servers : Given[r] = {"logger", "metrics", "pathManager"}
  OBVIOUS
<1>5. Given["api"] = {"logger", "authManager", "pathManager"} \cup Servers
  OBVIOUS
<1> HIDE DEF Given
<1> QED BY <1>1, <1>2, <1>3, <1>4, <1>5

(* Whoever was given a resource is closed with it; but for the API, when   *)
(* it was given the RTMPS server.                                          *)
LEMMA FlagsFollow ==
    ASSUME NEW q \in Resources, NEW r \in Given[q], ~(q = "api" /\ r = "rtmps")
    PROVE  r \in Resources /\ Flags[r] \subseteq Flags[q]
<1>1. CASE q \in {"logger", "authManager", "recordCleaner", "metrics", "pprof", "playback"}
  BY <1>1, ResourcesAre, FlagsAre, GivenAre
<1>2. CASE q = "pathManager"
  BY <1>2, ResourcesAre, FlagsAre, GivenAre
<1>3. CASE q \in Servers
  BY <1>3, ResourcesAre, FlagsAre, GivenAre DEF Servers
<1>4. CASE q = "api"
  BY <1>4, ResourcesAre, FlagsAre, GivenAre DEF Servers
<1> QED BY <1>1, <1>2, <1>3, <1>4, ResourcesAre DEF Servers

(* ... and before it.                                                      *)
LEMMA ClosedBefore ==
    ASSUME NEW q \in Resources, NEW r \in Given[q]
    PROVE  \E i \in DOMAIN CloseOrder : \E j \in 1 .. i - 1 :  CloseOrder[i] = r /\ CloseOrder[j] = q
<1> USE GivenAre DEF CloseOrder, Servers
<1>1. CASE q \in {"logger", "authManager", "recordCleaner", "metrics", "pprof", "playback"}
  BY <1>1, ResourcesAre
<1>2. CASE q = "pathManager"
  BY <1>2, ResourcesAre
<1>3. CASE q \in Servers
  BY <1>3, ResourcesAre
<1>4. CASE q = "api"
  BY <1>4, ResourcesAre
<1> QED BY <1>1, <1>2, <1>3, <1>4, ResourcesAre DEF Servers

LEMMA ClosedOnce ==
    ASSUME NEW i \in DOMAIN CloseOrder, NEW j \in DOMAIN CloseOrder, CloseOrder[i] = CloseOrder[j]
    PROVE  i = j
  BY DEF CloseOrder

-----------------------------------------------------------------------------
(* The inductive invariant.                                                *)

Objects == [live : BOOLEAN, settings : SUBSET Fields, refs : SUBSET Resources, dangling : SUBSET Resources]
Edits == [conf : SUBSET Fields, number : 0 .. MaxEdits]

StateInv ==
    /\ at \in {"creating", "serving", "closing", "ending", "ended", "crashed"}
    /\ IsConf(conf) /\ IsConf(apiConf) /\ (IsConf(file) \/ file = Invalid)
    /\ object \in [Resources -> Objects]
    /\ reload \in [by : {"none", "initial", "file", "api", "end"}, new : SUBSET Fields, closing : SUBSET Live,
                   tell : BOOLEAN]
    /\ editor \in Edits /\ pending \subseteq Edits
    /\ watcher \in {"none", "idle", "signalling", "failed", "ended"} /\ recent \in BOOLEAN /\ event \in BOOLEAN
    /\ scrape \in Resources \cup {"none", "nil"}
    /\ edits \in 0 .. MaxEdits

(* The reference closeResources forgets.                                   *)
Forgotten(r) == IF r = "api" THEN {"rtmps"} ELSE {}

(* A resource that runs refers to everything that runs and that it was     *)
(* given or that registered itself, and to nothing else; but for the one   *)
(* that is forgotten.                                                      *)
ObjectInv(r) ==
    /\ ~IsLive(r) => object[r] = Absent
    /\ object[r].settings \subseteq Settings[r]
    /\ object[r].refs \subseteq Wired(r, Live)
    /\ IsLive(r) => Wired(r, Live) \ object[r].refs \subseteq Forgotten(r)
    /\ object[r].dangling \subseteq Forgotten(r)

(* Whoever was given what is to be closed is to be closed as well.         *)
UsersClose ==
    \A q \in Live : \A r \in Given[q] \cap reload.closing :
        q \in reload.closing \/ (q = "api" /\ r = "rtmps")

(* What goes on running under a configuration is enabled by it, runs with  *)
(* its settings, and waits for nobody that it enables.                     *)
Kept(r, c) ==
    /\ Enabled(r, c)
    /\ Differs(object[r].settings, c \cap Settings[r]) \subseteq NotCompared(r)
    /\ \A q \in Given[r] \ Live : Enabled(q, c) => r = "api" /\ q = "rtmps"

IInv ==
    /\ StateInv
    /\ \A r \in Resources : ObjectInv(r)
    /\ at \in {"creating", "serving"} => reload.closing = {}
    /\ at \in {"closing", "ending"} => UsersClose
    /\ at = "closing" => \A r \in Live \ reload.closing : Kept(r, reload.new)
    /\ at \in {"creating", "serving"} => \A r \in Live : Kept(r, conf)
    /\ at = "serving" => \A r \in Resources : Enabled(r, conf) => IsLive(r)

-----------------------------------------------------------------------------
LEMMA RegisteringAre ==
    /\ Registering["metrics"] = {"pathManager"} \cup Servers /\ Registering["pathManager"] = {"hls"}
    /\ \A r \in Resources \ {"metrics", "pathManager"} : Registering[r] = {}
  BY ResourcesAre DEF Registering, Servers

LEMMA Wires ==
    ASSUME NEW r \in Resources
    PROVE  Given[r] \subseteq Resources /\ Registering[r] \subseteq Resources /\ Given[r] \cap Registering[r] = {}
<1>1. CASE r \in {"logger", "authManager", "recordCleaner", "metrics", "pprof", "playback"}
  BY <1>1, ResourcesAre, GivenAre, RegisteringAre DEF Servers
<1>2. CASE r = "pathManager"
  BY <1>2, ResourcesAre, GivenAre, RegisteringAre
<1>3. CASE r \in Servers
  BY <1>3, ResourcesAre, GivenAre, RegisteringAre DEF Servers
<1>4. CASE r = "api"
  BY <1>4, ResourcesAre, GivenAre, RegisteringAre DEF Servers
<1> QED BY <1>1, <1>2, <1>3, <1>4, ResourcesAre DEF Servers

LEMMA SettingsAreFields ==
    ASSUME NEW r \in Resources
    PROVE  Settings[r] \subseteq Fields /\ HotFields(r) \subseteq Settings[r]
<1>1. Settings[r] \subseteq Fields
  BY DEF Fields
<1>2. HotFields(r) \subseteq Settings[r]
  <2>1. CASE r \in {"authManager", "recordCleaner", "playback", "pathManager"}
    BY <2>1 DEF HotFields, Settings, BaseSettings
  <2>2. CASE r \notin {"authManager", "recordCleaner", "playback", "pathManager"}
    BY <2>2 DEF HotFields
  <2> QED BY <2>1, <2>2
<1> QED BY <1>1, <1>2

(* Whoever is closed next is used by nobody that is to be closed.          *)
LEMMA NextHasNoUser ==
    ASSUME NEW r, NextToClose(r), NEW q \in Resources, r \in Given[q]
    PROVE  q \notin reload.closing
<1>1. PICK i \in DOMAIN CloseOrder : CloseOrder[i] = r /\ \A j \in 1 .. i - 1 : CloseOrder[j] \notin reload.closing
  BY DEF NextToClose
<1>2. PICK k \in DOMAIN CloseOrder : \E j \in 1 .. k - 1 : CloseOrder[k] = r /\ CloseOrder[j] = q
  BY ClosedBefore
<1>3. i = k
  BY <1>1, <1>2, ClosedOnce
<1> QED BY <1>1, <1>2, <1>3

-----------------------------------------------------------------------------
(* Steps that close and create nothing.                                    *)
LEMMA QuietStep ==
    ASSUME IInv, StateInv', UNCHANGED <<object, conf>>, reload'.closing = reload.closing, reload'.new = reload.new,
           at' \in {at, "crashed"}
    PROVE  IInv'
<1>1. Live' = Live /\ \A r : IsLive(r)' = IsLive(r)
  BY DEF Live, IsLive
<1>2. \A r \in Resources : ObjectInv(r)'
  BY <1>1 DEF IInv, ObjectInv, Wired
<1>3. \A r \in Resources : Kept(r, conf)' = Kept(r, conf) /\ Kept(r, reload.new)' = Kept(r, reload.new)
  BY <1>1 DEF Kept
<1>4. UsersClose' = UsersClose
  BY <1>1 DEF UsersClose
<1>5. Live \subseteq Resources
  BY DEF Live
<1>6. CASE at' = at
  BY <1>1, <1>2, <1>3, <1>4, <1>5, <1>6 DEF IInv
<1>7. CASE at' = "crashed"
  BY <1>2, <1>7 DEF IInv
<1> QED BY <1>6, <1>7

LEMMA EditedFieldsAreFields == EditedFields \subseteq Fields
  BY CoreAssumption DEF EditedFields

LEMMA EditStep ==
    ASSUME IInv, OnConfigGlobalPatch \/ OnConfigPathsEdit
    PROVE  IInv'
<1>0. StateInv /\ MaxEdits \in Nat
  BY CoreAssumption DEF IInv
<1>1. PICK f \in Fields : /\ apiConf' = Edited(apiConf, f)
                          /\ \/ pending' = pending \cup {[conf |-> apiConf', number |-> edits + 1]} /\ editor' = editor
                             \/ editor' = [conf |-> apiConf', number |-> edits + 1] /\ pending' = pending
  BY EditedFieldsAreFields DEF OnConfigGlobalPatch, OnConfigPathsEdit
<1>2. /\ edits < MaxEdits /\ edits' = edits + 1 /\ UNCHANGED <<at, conf, object, reload, watcherVars, scrape>>
  BY DEF OnConfigGlobalPatch, OnConfigPathsEdit, CanEdit
<1>3. apiConf' \in SUBSET Fields /\ edits' \in 0 .. MaxEdits /\ edits + 1 \in 0 .. MaxEdits
  BY <1>0, <1>1, <1>2 DEF StateInv, IsConf, Edited
<1>4. [conf |-> apiConf', number |-> edits + 1] \in Edits
  BY <1>3 DEF Edits
<1>5. StateInv'
  BY <1>0, <1>1, <1>2, <1>3, <1>4 DEF StateInv, IsConf, Live, IsLive, watcherVars
<1> QED BY <1>2, <1>5, QuietStep

LEMMA WatcherSteps ==
    ASSUME IInv, FileWritten \/ WatcherStep
    PROVE  IInv'
<1>0. StateInv /\ MaxEdits \in Nat
  BY CoreAssumption DEF IInv
<1>1. UNCHANGED <<at, conf, object, reload, apiVars, scrape>>
  BY DEF FileWritten, WatcherStep, WatcherEvent, WatcherError
<1>2. StateInv'
  <2>1. CASE FileWritten
    <3>1. edits < MaxEdits /\ edits' = edits + 1 /\ event' \in BOOLEAN /\ UNCHANGED <<watcher, recent>>
      BY <2>1 DEF FileWritten
    <3>2. edits' \in 0 .. MaxEdits
      BY <1>0, <3>1 DEF StateInv
    <3>3. file' = Invalid \/ \E f \in Fields : file' = Edited(file \ Invalid, f)
      BY <2>1, EditedFieldsAreFields DEF FileWritten
    <3>4. IsConf(file') \/ file' = Invalid
      BY <1>0, <3>3 DEF StateInv, IsConf, Edited
    <3> QED BY <1>0, <1>1, <3>1, <3>2, <3>4 DEF StateInv, apiVars, Live, IsLive, IsConf
  <2>2. CASE WatcherStep
    <3>1. /\ file' = file /\ edits' = edits /\ watcher' \in {watcher, "signalling", "failed"}
          /\ recent' \in {recent, TRUE} /\ event' \in {event, FALSE}
      BY <2>2 DEF WatcherStep, WatcherEvent, WatcherError
    <3>2. /\ watcher' \in {"none", "idle", "signalling", "failed", "ended"}
          /\ recent' \in BOOLEAN /\ event' \in BOOLEAN
      BY <1>0, <3>1 DEF StateInv
    <3> QED BY <1>0, <1>1, <3>1, <3>2 DEF StateInv, apiVars, Live, IsLive, IsConf
  <2> QED BY <2>1, <2>2
<1> QED BY <1>1, <1>2, QuietStep

LEMMA ScrapeSteps ==
    ASSUME IInv, ScrapeBegins \/ ScrapeEnds
    PROVE  IInv'
<1>0. StateInv
  BY DEF IInv
<1>1. UNCHANGED <<conf, object, reload, apiVars, watcherVars, edits>> /\ at' \in {at, "crashed"}
  BY DEF ScrapeBegins, ScrapeEnds
<1>2. scrape' \in Resources \cup {"none", "nil"}
  <2>1. object["metrics"].refs \subseteq Resources
    BY <1>0, ResourcesAre DEF StateInv, Objects
  <2> QED BY <1>0, <2>1 DEF ScrapeBegins, ScrapeEnds, StateInv
<1>3. StateInv'
  BY <1>0, <1>1, <1>2 DEF StateInv, apiVars, watcherVars, Live, IsLive
<1> QED BY <1>1, <1>3, QuietStep

LEMMA ReloadConfStep ==
    ASSUME IInv, APIReloadConf
    PROVE  IInv'
<1>0. StateInv
  BY DEF IInv
<1>1. /\ UNCHANGED <<at, conf, object, editor, pending, watcherVars, scrape, edits>>
      /\ apiConf' = reload.new /\ reload' = [reload EXCEPT !.tell = FALSE]
  BY DEF APIReloadConf
<1>2. reload'.closing = reload.closing /\ reload'.new = reload.new
  BY <1>0, <1>1 DEF StateInv
<1>3. reload' \in [by : {"none", "initial", "file", "api", "end"}, new : SUBSET Fields, closing : SUBSET Live,
                   tell : BOOLEAN]
  BY <1>0, <1>1 DEF StateInv
<1>4. StateInv'
  BY <1>0, <1>1, <1>2, <1>3 DEF StateInv, IsConf, Live, IsLive, watcherVars
<1> QED BY <1>1, <1>2, <1>4, QuietStep

LEMMA ClosedStep ==
    ASSUME IInv, ResourcesClosed
    PROVE  IInv'
<1>0. StateInv /\ UNCHANGED <<object, reload, apiVars, watcherVars, scrape, edits>> /\ reload.closing = {}
  BY DEF IInv, ResourcesClosed
<1>1. CASE at = "closing"
  <2>1. at' = "creating" /\ conf' = reload.new /\ reload.new \in SUBSET Fields
    BY <1>0, <1>1 DEF ResourcesClosed, StateInv
  <2>2. StateInv'
    BY <1>0, <2>1 DEF StateInv, IsConf, Live, IsLive, watcherVars, apiVars
  <2> QED BY <1>0, <1>1, <2>1, <2>2 DEF IInv, ObjectInv, Kept, Live, IsLive
<1>2. CASE at = "ending"
  <2>1. at' = "ended" /\ conf' = conf
    BY <1>0, <1>2 DEF ResourcesClosed
  <2>2. StateInv'
    BY <1>0, <2>1 DEF StateInv, IsConf, Live, IsLive, watcherVars, apiVars
  <2> QED BY <1>0, <2>1, <2>2 DEF IInv, ObjectInv, Live, IsLive
<1> QED BY <1>1, <1>2 DEF ResourcesClosed

-----------------------------------------------------------------------------
(* The end of the server.                                                  *)
LEMMA EndStep ==
    ASSUME StateInv', \A r \in Resources : ObjectInv(r)', at' = "ending", reload'.closing = Live'
    PROVE  IInv'
<1>1. UsersClose'
  BY DEF UsersClose
<1> QED BY <1>1 DEF IInv

LEMMA NoEditorIsEdit == NoEditor \in Edits
  BY CoreAssumption DEF NoEditor, Edits

LEMMA ShutdownStep ==
    ASSUME IInv, Shutdown(Live'), object' \in [Resources -> Objects], \A r \in Resources : ObjectInv(r)',
           UNCHANGED <<conf, apiConf, recent, event, file, scrape, edits>>
    PROVE  IInv'
<1>0. StateInv
  BY DEF IInv
<1>1. at' = "ending" /\ editor' = NoEditor /\ pending' = {} /\ watcher' \in {"none", "ended"}
  BY DEF Shutdown
<1>2. reload' = [by |-> "end", new |-> {}, closing |-> Live', tell |-> FALSE]
  BY DEF Shutdown, Reload
<1>3. StateInv'
  BY <1>0, <1>1, <1>2, NoEditorIsEdit DEF StateInv, IsConf
<1> QED BY <1>1, <1>2, <1>3, EndStep

LEMMA InterruptStep ==
    ASSUME IInv, UNCHANGED object, Shutdown(Live), UNCHANGED <<conf, apiConf, recent, event, file, scrape, edits>>
    PROVE  IInv'
<1>1. Live' = Live /\ \A r : IsLive(r)' = IsLive(r)
  BY DEF Live, IsLive
<1>2. \A r \in Resources : ObjectInv(r)'
  BY <1>1 DEF IInv, ObjectInv, Wired
<1> QED BY <1>1, <1>2, ShutdownStep DEF IInv, StateInv

-----------------------------------------------------------------------------
(* A reload begins: whatever goes on running under the new configuration   *)
(* is not touched by it.                                                   *)
LEMMA StartStep ==
    ASSUME IInv, at = "serving", NEW by \in {"file", "api"}, NEW new \in SUBSET Fields, StartReload(by, new),
           editor' \in Edits, pending' \subseteq Edits,
           watcher' \in {"none", "idle", "signalling", "failed", "ended"},
           UNCHANGED <<conf, apiConf, recent, event, file, scrape, edits>>
    PROVE  IInv'
<1> DEFINE flags == CloseFlags(conf, new)
<1>0. StateInv /\ at' = "closing" /\ \A r \in Resources : ObjectInv(r)
  BY DEF IInv, StartReload
<1>1. object' = [r \in Resources |-> IF IsLive(r) /\ r \notin flags
                                     THEN [object[r] EXCEPT !.settings = HotReloaded(@, r, new)] ELSE object[r]]
  BY DEF StartReload
<1>2. PICK tell \in BOOLEAN : reload' = [by |-> by, new |-> new, closing |-> flags \cap Live, tell |-> tell]
  <2>1. reload' = Reload(by, new, flags \cap Live)
    BY DEF StartReload
  <2>2. (by = "file" /\ IsLive("api") /\ "api" \notin flags \cap Live) \in BOOLEAN
    OBVIOUS
  <2> QED BY <2>1, <2>2 DEF Reload
<1> HIDE DEF flags
<1>3. ASSUME NEW r \in Resources
      PROVE  /\ object'[r] \in Objects /\ object'[r].live = object[r].live
             /\ object'[r].refs = object[r].refs /\ object'[r].dangling = object[r].dangling
             /\ object'[r].settings \subseteq Settings[r]
             /\ ~IsLive(r) => object'[r] = object[r]
             /\ IsLive(r) /\ r \notin flags => object'[r].settings = HotReloaded(object[r].settings, r, new)
  <2>0. object[r] \in Objects /\ object[r].settings \subseteq Settings[r]
    BY <1>0 DEF StateInv, ObjectInv
  <2>1. CASE IsLive(r) /\ r \notin flags
    <3>1. object'[r] = [object[r] EXCEPT !.settings = HotReloaded(object[r].settings, r, new)]
      BY <1>1, <2>1
    <3>2. HotReloaded(object[r].settings, r, new) \subseteq Settings[r] /\ Settings[r] \subseteq Fields
      BY <2>0, SettingsAreFields DEF HotReloaded
    <3> QED BY <2>0, <2>1, <3>1, <3>2 DEF Objects
  <2>2. CASE ~(IsLive(r) /\ r \notin flags)
    BY <1>1, <2>0, <2>2
  <2> QED BY <2>1, <2>2
<1>4. Live' = Live /\ \A r \in Resources : IsLive(r)' = IsLive(r)
  BY <1>3 DEF Live, IsLive
<1>5. \A r \in Resources : ObjectInv(r)'
  BY <1>0, <1>3, <1>4 DEF ObjectInv, Wired
<1>6. StateInv'
  <2>1. object' \in [Resources -> Objects]
    BY <1>1, <1>3
  <2> QED BY <1>0, <1>2, <1>4, <2>1 DEF StateInv, IsConf
<1>7. \A q \in Resources, r \in Resources : Flags[r] \subseteq Flags[q] /\ r \in flags => q \in flags
  BY DEF flags, CloseFlags
<1>8. UsersClose'
  <2> SUFFICES ASSUME NEW q \in Live, NEW r \in Given[q] \cap (flags \cap Live), ~(q = "api" /\ r = "rtmps")
               PROVE  q \in flags
    BY <1>2, <1>4 DEF UsersClose
  <2> QED BY <1>7, FlagsFollow DEF Live
<1>9. ASSUME NEW r \in Live, r \notin flags
      PROVE  Kept(r, new)'
  <2>0. Kept(r, conf) /\ r \in Resources /\ IsLive(r)
    BY <1>9 DEF IInv, Live
  <2>1. \A q \in Resources \ flags : Compared[q] \cap Differs(conf, new) = {}
    BY DEF flags, CloseFlags, Flags
  <2>2. \A q \in Resources \ flags : Enabled(q, conf) <=> Enabled(q, new)
    BY <2>1, EnabledCompared
  <2>3. Enabled(r, new)
    BY <1>9, <2>0, <2>2 DEF Kept
  <2>4. Differs(HotReloaded(object[r].settings, r, new), new \cap Settings[r]) \subseteq NotCompared(r)
    <3>1. /\ Differs(object[r].settings, conf \cap Settings[r]) \subseteq NotCompared(r)
          /\ object[r].settings \subseteq Settings[r] /\ HotFields(r) \subseteq Settings[r]
      BY <1>0, <2>0, SettingsAreFields DEF Kept, ObjectInv
    <3>2. Settings[r] \subseteq Compared[r] \cup HotFields(r) \cup NotCompared(r)
      BY <2>0, SettingsCompared
    <3>3. Compared[r] \cap Differs(conf, new) = {}
      BY <1>9, <2>0, <2>1
    <3> QED BY <3>1, <3>2, <3>3 DEF Differs, HotReloaded
  <2>5. ASSUME NEW q \in Given[r] \ Live, Enabled(q, new)
        PROVE  r = "api" /\ q = "rtmps"
    <3>1. CASE q \in flags
      BY <1>7, <1>9, <2>0, <3>1, FlagsFollow
    <3>2. CASE q \notin flags
      BY <2>0, <2>2, <2>5, <3>2, Wires DEF Kept
    <3> QED BY <3>1, <3>2
  <2> QED BY <1>3, <1>4, <1>9, <2>0, <2>3, <2>4, <2>5 DEF Kept
<1>10. \A r \in Live' \ reload'.closing : Kept(r, reload.new)'
  BY <1>2, <1>4, <1>9 DEF Kept
<1> QED BY <1>0, <1>5, <1>6, <1>8, <1>10 DEF IInv

LEMMA ReloadSteps ==
    ASSUME IInv, ConfChanged \/ ConfigSet \/ Interrupt
    PROVE  IInv'
<1>0. StateInv
  BY DEF IInv
<1>1. CASE ConfChanged /\ file = Invalid
  BY <1>1, InterruptStep DEF ConfChanged
<1>2. CASE ConfChanged /\ file # Invalid
  <2>1. /\ at = "serving" /\ file \in SUBSET Fields /\ StartReload("file", file) /\ watcher' \in {"failed", "idle"}
        /\ UNCHANGED <<editor, pending, conf, apiConf, recent, event, file, scrape, edits>>
    BY <1>0, <1>2 DEF ConfChanged, StateInv, IsConf
  <2> QED BY <1>0, <2>1, StartStep DEF StateInv
<1>3. CASE EditorConfigSet
  <2>1. /\ at = "serving" /\ StartReload("api", editor.conf) /\ editor' = NoEditor
        /\ UNCHANGED <<pending, conf, apiConf, watcherVars, scrape, edits>>
    BY <1>3 DEF EditorConfigSet
  <2>2. editor.conf \in SUBSET Fields
    BY <1>0 DEF StateInv, Edits
  <2> QED BY <1>0, <2>1, <2>2, StartStep, NoEditorIsEdit DEF StateInv, watcherVars
<1>4. ASSUME NEW p \in pending, PendingConfigSet(p)
      PROVE  IInv'
  <2>1. /\ at = "serving" /\ StartReload("api", p.conf) /\ pending' \subseteq pending
        /\ UNCHANGED <<editor, conf, apiConf, watcherVars, scrape, edits>>
    BY <1>4 DEF PendingConfigSet
  <2>2. p.conf \in SUBSET Fields
    BY <1>0 DEF StateInv, Edits
  <2> QED BY <1>0, <2>1, <2>2, StartStep DEF StateInv, watcherVars
<1>5. CASE Interrupt
  BY <1>5, InterruptStep DEF Interrupt
<1> QED BY <1>1, <1>2, <1>3, <1>4, <1>5 DEF ConfigSet

-----------------------------------------------------------------------------
(* Creation: what goes on running lacks nothing of what is created, but    *)
(* for the reference that is forgotten.                                    *)
LEMMA CreatedObjects ==
    ASSUME IInv, at = "creating", NEW failure, object' = Created(failure), UNCHANGED conf
    PROVE  /\ object' \in [Resources -> Objects]
           /\ \A r \in Resources : ObjectInv(r)'
           /\ failure = "none" => \A r \in Resources : Enabled(r, conf) => IsLive(r)'
           /\ failure = "none" => \A r \in Live' : Kept(r, conf)'
<1>0. StateInv /\ (\A r \in Resources : ObjectInv(r)) /\ \A r \in Live : Kept(r, conf)
  BY DEF IInv
<1>1. PICK live :
        /\ Live \subseteq live /\ live \subseteq Resources /\ \A r \in live \ Live : Enabled(r, conf)
        /\ failure = "none" => \A r \in Resources : Enabled(r, conf) => r \in live
        /\ object' = [r \in Resources |->
              IF r \notin live THEN Absent
              ELSE IF ~IsLive(r) THEN Object(conf \cap Settings[r], Wired(r, live))
              ELSE [object[r] EXCEPT !.refs = @ \cup (Registering[r] \cap (live \ Live))]]
  <2> DEFINE before == {CreateOrder[i] : i \in {j \in DOMAIN CreateOrder : \A k \in 1 .. j : CreateOrder[k] # failure}}
             live == Live \cup {r \in before : Enabled(r, conf)}
  <2>1. before \subseteq Resources /\ (failure = "none" => before = Resources)
    BY DEF CreateOrder, Resources, ToSet
  <2> HIDE DEF before
  <2>2. Live \subseteq live /\ live \subseteq Resources /\ \A r \in live \ Live : Enabled(r, conf)
    BY <2>1 DEF Live
  <2>3. failure = "none" => \A r \in Resources : Enabled(r, conf) => r \in live
    BY <2>1
  <2>4. object' = [r \in Resources |->
              IF r \notin live THEN Absent
              ELSE IF ~IsLive(r) THEN Object(conf \cap Settings[r], Wired(r, live))
              ELSE [object[r] EXCEPT !.refs = @ \cup (Registering[r] \cap (live \ Live))]]
    BY DEF Created, before
  <2> HIDE DEF live
  <2> QED BY <2>2, <2>3, <2>4
<1>2. ASSUME NEW r \in Resources
      PROVE  /\ object'[r] \in Objects /\ (object'[r].live <=> r \in live)
             /\ r \notin live => object'[r] = Absent
             /\ r \in live \ Live => /\ object'[r].settings = conf \cap Settings[r] /\ object'[r].dangling = {}
                                     /\ object'[r].refs = Wired(r, live)
             /\ r \in Live => /\ object'[r].settings = object[r].settings /\ object'[r].dangling = object[r].dangling
                              /\ object'[r].refs = object[r].refs \cup (Registering[r] \cap (live \ Live))
  <2>0. object[r] \in Objects /\ Settings[r] \subseteq Fields /\ conf \in SUBSET Fields
    BY <1>0, SettingsAreFields DEF StateInv, IsConf
  <2>1. CASE r \notin live
    BY <1>1, <2>1 DEF Absent, Objects
  <2>2. CASE r \in live \ Live
    <3>1. object'[r] = Object(conf \cap Settings[r], Wired(r, live))
      BY <1>1, <2>2 DEF Live
    <3>2. conf \cap Settings[r] \subseteq Fields /\ Wired(r, live) \subseteq Resources
      BY <1>1, <2>0 DEF Wired
    <3> QED BY <2>2, <3>1, <3>2 DEF Object, Objects
  <2>3. CASE r \in Live
    <3>1. object'[r] = [object[r] EXCEPT !.refs = object[r].refs \cup (Registering[r] \cap (live \ Live))]
      BY <1>1, <2>3 DEF Live
    <3>2. object[r].refs \cup (Registering[r] \cap (live \ Live)) \subseteq Resources
      BY <1>1, <2>0 DEF Objects
    <3>3. object[r].live /\ r \in live
      BY <1>1, <2>3 DEF Live, IsLive
    <3> QED BY <2>0, <2>3, <3>1, <3>2, <3>3 DEF Objects
  <2> QED BY <1>1, <2>1, <2>2, <2>3
<1>3. Live' = live /\ \A r \in Resources : IsLive(r)' <=> r \in live
  BY <1>1, <1>2 DEF Live, IsLive
<1>4. object' \in [Resources -> Objects]
  BY <1>1, <1>2
<1>5. ASSUME NEW r \in Resources
      PROVE  ObjectInv(r)'
  <2>1. CASE r \notin live
    BY <1>2, <1>3, <2>1 DEF ObjectInv, Absent
  <2>2. CASE r \in live \ Live
    BY <1>2, <1>3, <2>2 DEF ObjectInv
  <2>3. CASE r \in Live
    <3>1. ObjectInv(r) /\ Kept(r, conf) /\ IsLive(r)
      BY <1>0, <2>3 DEF Live
    <3>2. Wired(r, Live) \subseteq Wired(r, live) /\ Registering[r] \cap (live \ Live) \subseteq Wired(r, live)
      BY <1>1 DEF Wired
    <3>3. Wired(r, live) \ (Wired(r, Live) \cup (Registering[r] \cap (live \ Live))) \subseteq Forgotten(r)
      <4> SUFFICES ASSUME NEW q \in Given[r], q \in live, q \notin Live
                   PROVE  q \in Forgotten(r)
        BY DEF Wired
      <4>1. Enabled(q, conf)
        BY <1>1
      <4> QED BY <3>1, <4>1 DEF Kept, Forgotten
    <3> QED BY <1>2, <1>3, <2>3, <3>1, <3>2, <3>3 DEF ObjectInv
  <2> QED BY <2>1, <2>2, <2>3
<1>6. failure = "none" => \A r \in Resources : Enabled(r, conf) => IsLive(r)'
  BY <1>1, <1>3
<1>7. ASSUME failure = "none", NEW r \in Live'
      PROVE  Kept(r, conf)'
  <2>1. Given[r] \ Live' = {q \in Given[r] : q \notin Live'} /\ r \in Resources /\ r \in live
    BY <1>1, <1>3
  <2>2. Enabled(r, conf) /\ Differs(object'[r].settings, conf \cap Settings[r]) \subseteq NotCompared(r)
    <3>1. CASE r \in Live
      BY <1>0, <1>2, <2>1, <3>1 DEF Kept
    <3>2. CASE r \notin Live
      BY <1>1, <1>2, <2>1, <3>2 DEF Differs
    <3> QED BY <3>1, <3>2
  <2>3. \A q \in Given[r] \ Live' : ~Enabled(q, conf)
    BY <1>1, <1>3, <1>7, <2>1, Wires
  <2> QED BY <2>2, <2>3 DEF Kept
<1> QED BY <1>4, <1>5, <1>6, <1>7

LEMMA CreateStep ==
    ASSUME IInv, CreateResources
    PROVE  IInv'
<1>0. /\ StateInv /\ at = "creating" /\ at' = "serving" /\ object' = Created("none") /\ apiConf' \in {conf, apiConf}
      /\ UNCHANGED <<conf, editor, pending, watcherVars, scrape, edits>>
  BY DEF IInv, CreateResources
<1>1. reload' = [by |-> "none", new |-> {}, closing |-> {}, tell |-> FALSE]
  BY DEF CreateResources, NoReload, Reload
<1>2. StateInv'
  BY <1>0, <1>1, CreatedObjects DEF StateInv, IsConf, watcherVars
<1> QED BY <1>0, <1>1, <1>2, CreatedObjects DEF IInv

LEMMA CreateFailsStep ==
    ASSUME IInv, NEW r \in Resources, CreateResourcesFails(r)
    PROVE  IInv'
<1>0. /\ StateInv /\ at = "creating" /\ object' = Created(r) /\ reload.closing = {}
      /\ UNCHANGED <<conf, apiConf, recent, event, file, scrape, edits>>
  BY DEF IInv, CreateResourcesFails
<1>1. object' \in [Resources -> Objects] /\ \A q \in Resources : ObjectInv(q)'
  BY <1>0, CreatedObjects
<1>2. CASE r = "logger" /\ reload.by # "initial"
  <2>1. at' = "crashed" /\ UNCHANGED <<reload, editor, pending, watcher>>
    BY <1>2 DEF CreateResourcesFails
  <2>2. StateInv'
    BY <1>0, <1>1, <2>1 DEF StateInv, IsConf
  <2> QED BY <1>1, <2>1, <2>2 DEF IInv
<1>3. CASE ~(r = "logger" /\ reload.by # "initial")
  <2>1. Shutdown({q \in Resources : object'[q].live})
    BY <1>3 DEF CreateResourcesFails
  <2>2. Live' = {q \in Resources : object'[q].live}
    BY DEF Live, IsLive
  <2> QED BY <1>0, <1>1, <2>1, <2>2, ShutdownStep
<1> QED BY <1>2, <1>3

-----------------------------------------------------------------------------
(* A resource is closed: nobody that goes on refers to it, but for the one *)
(* that is forgotten.                                                      *)
LEMMA CloseStepKeeps ==
    ASSUME IInv, CloseResource
    PROVE  IInv'
<1>0. StateInv /\ at \in {"closing", "ending"} /\ UNCHANGED <<at, conf, watcherVars, edits>> /\ UsersClose
      /\ \A q \in Resources : ObjectInv(q)
  BY DEF IInv, CloseResource
<1>1. PICK r \in reload.closing :
        /\ NextToClose(r) /\ object' = Closed(r) /\ reload' = [reload EXCEPT !.closing = @ \ {r}]
        /\ scrape' \in {"nil", scrape} /\ apiConf' \in {{}, apiConf}
        /\ editor' \in {NoEditor, editor} /\ pending' \subseteq pending \cup {editor}
  <2>1. PICK r \in reload.closing :
        /\ NextToClose(r) /\ object' = Closed(r) /\ reload' = [reload EXCEPT !.closing = @ \ {r}]
        /\ scrape' = IF scrape = r THEN "nil" ELSE scrape
        /\ IF r = "api" THEN apiConf' = {} /\ editor' = NoEditor /\ pending' = pending \cup ({editor} \ {NoEditor})
           ELSE UNCHANGED apiVars
    BY DEF CloseResource
  <2>2. scrape' \in {"nil", scrape}
    BY <2>1
  <2>3. apiConf' \in {{}, apiConf} /\ editor' \in {NoEditor, editor} /\ pending' \subseteq pending \cup {editor}
    BY <2>1 DEF apiVars
  <2> QED BY <2>1, <2>2, <2>3
<1>2. /\ r \in Live /\ r \in Resources /\ reload'.new = reload.new /\ reload'.closing = reload.closing \ {r}
      /\ reload'.by = reload.by /\ reload'.tell = reload.tell
  BY <1>0, <1>1 DEF StateInv, Live
<1>3. ASSUME NEW q \in Resources
      PROVE  /\ object'[q] \in Objects /\ (object'[q].live <=> q \in Live \ {r})
             /\ q = r => object'[q] = Absent
             /\ q # r => /\ object'[q].settings = object[q].settings /\ object'[q].refs = object[q].refs \ {r}
                         /\ r \notin object[q].refs => object'[q] = object[q]
                         /\ r \in object[q].refs => object'[q].dangling = object[q].dangling \cup ({r} \ Registering[q])
  <2>0. object[q] \in Objects /\ (object[q].live <=> q \in Live)
    BY <1>0 DEF StateInv, Live, IsLive
  <2>1. CASE q = r
    <3>1. object'[q] = Absent
      BY <1>1, <2>1 DEF Closed
    <3> QED BY <2>1, <3>1 DEF Absent, Objects
  <2>2. CASE q # r /\ r \notin object[q].refs
    <3>1. object'[q] = object[q]
      BY <1>1, <2>2 DEF Closed
    <3> QED BY <2>0, <2>2, <3>1
  <2>3. CASE q # r /\ r \in object[q].refs
    <3>1. object'[q] = [object[q] EXCEPT !.refs = object[q].refs \ {r},
                                         !.dangling = object[q].dangling \cup ({r} \ Registering[q])]
      BY <1>1, <2>3 DEF Closed
    <3>2. object[q].refs \ {r} \subseteq Resources /\ object[q].dangling \cup ({r} \ Registering[q]) \subseteq Resources
      BY <1>2, <2>0 DEF Objects
    <3> QED BY <2>0, <2>3, <3>1, <3>2 DEF Objects
  <2> QED BY <2>1, <2>2, <2>3
<1>4. Live' = Live \ {r} /\ \A q \in Resources : IsLive(q)' <=> q \in Live \ {r}
  BY <1>3 DEF Live, IsLive
<1>5. \A q \in Live : r \in Given[q] /\ ~(q = "api" /\ r = "rtmps") => FALSE
  BY <1>0, <1>1, NextHasNoUser DEF UsersClose, Live
<1>6. ASSUME NEW q \in Resources
      PROVE  ObjectInv(q)'
  <2>0. ObjectInv(q) /\ (IsLive(q) <=> q \in Live) /\ Given[q] \cap Registering[q] = {}
    BY <1>0, Wires DEF Live
  <2>1. CASE q = r
    BY <1>3, <1>4, <2>1 DEF ObjectInv, Absent
  <2>2. CASE q # r /\ r \notin object[q].refs
    BY <1>3, <1>4, <2>0, <2>2 DEF ObjectInv, Wired
  <2>3. CASE q # r /\ r \in object[q].refs
    <3>1. q \in Live /\ r \in Given[q] \cup Registering[q]
      BY <2>0, <2>3 DEF ObjectInv, Absent, Wired
    <3>2. {r} \ Registering[q] \subseteq Forgotten(q)
      BY <1>5, <3>1 DEF Forgotten
    <3> QED BY <1>3, <1>4, <2>0, <2>3, <3>1, <3>2 DEF ObjectInv, Wired
  <2> QED BY <2>1, <2>2, <2>3
<1>7. StateInv'
  <2>1. object' \in [Resources -> Objects]
    BY <1>1, <1>3 DEF Closed
  <2>2. reload' \in [by : {"none", "initial", "file", "api", "end"}, new : SUBSET Fields, closing : SUBSET (Live'),
                     tell : BOOLEAN]
    BY <1>0, <1>1, <1>2, <1>4 DEF StateInv
  <2> QED BY <1>0, <1>1, <2>1, <2>2, NoEditorIsEdit DEF StateInv, IsConf, watcherVars
<1>8. UsersClose'
  BY <1>0, <1>2, <1>4 DEF UsersClose
<1>9. ASSUME at = "closing", NEW q \in Live' \ reload'.closing
      PROVE  Kept(q, reload.new)'
  <2>1. q \in Live \ reload.closing /\ q # r /\ q \in Resources
    BY <1>2, <1>4, <1>9 DEF Live
  <2>2. Kept(q, reload.new) /\ (r \in Given[q] => q = "api" /\ r = "rtmps")
    BY <1>5, <1>9, <2>1 DEF IInv
  <2> QED BY <1>2, <1>3, <1>4, <2>1, <2>2 DEF Kept
<1> QED BY <1>0, <1>6, <1>7, <1>8, <1>9 DEF IInv

-----------------------------------------------------------------------------
LEMMA InitInv == Init => IInv
<1> SUFFICES ASSUME Init PROVE IInv
  OBVIOUS
<1>1. Live = {} /\ \A r \in Resources : object[r] = Absent /\ ~IsLive(r)
  BY DEF Init, Live, IsLive, Absent
<1>2. reload = [by |-> "initial", new |-> {}, closing |-> {}, tell |-> FALSE]
  BY DEF Init, Reload
<1>3. Absent \in Objects
  BY DEF Absent, Objects
<1>4. StateInv
  <2>1. object \in [Resources -> Objects]
    BY <1>3 DEF Init
  <2>2. reload \in [by : {"none", "initial", "file", "api", "end"}, new : SUBSET Fields, closing : SUBSET Live,
                    tell : BOOLEAN]
    BY <1>2
  <2>3. editor \in Edits /\ pending \subseteq Edits /\ edits \in 0 .. MaxEdits
    BY NoEditorIsEdit, CoreAssumption DEF Init
  <2> QED BY <2>1, <2>2, <2>3 DEF Init, StateInv, IsConf
<1>5. \A r \in Resources : ObjectInv(r)
  BY <1>1 DEF ObjectInv, Absent
<1> QED BY <1>1, <1>2, <1>4, <1>5 DEF IInv, Init

LEMMA NextInv == IInv /\ [Next]_vars => IInv'
<1> SUFFICES ASSUME IInv, [Next]_vars PROVE IInv'
  OBVIOUS
<1>1. CASE CreateResources
  BY <1>1, CreateStep
<1>2. CASE \E r \in Resources : CreateResourcesFails(r)
  BY <1>2, CreateFailsStep
<1>3. CASE CloseStep
  BY <1>3, CloseStepKeeps, ReloadConfStep, ClosedStep DEF CloseStep
<1>4. CASE ConfChanged \/ ConfigSet \/ Interrupt
  BY <1>4, ReloadSteps
<1>5. CASE OnConfigGlobalPatch \/ OnConfigPathsEdit
  BY <1>5, EditStep
<1>6. CASE FileWritten \/ WatcherStep
  BY <1>6, WatcherSteps
<1>7. CASE ScrapeBegins \/ ScrapeEnds
  BY <1>7, ScrapeSteps
<1>8. CASE UNCHANGED vars
  <2>1. StateInv'
    BY <1>8 DEF vars, apiVars, watcherVars, IInv, StateInv, IsConf, Live, IsLive
  <2> QED BY <1>8, <2>1, QuietStep DEF vars
<1> QED BY <1>1, <1>2, <1>3, <1>4, <1>5, <1>6, <1>7, <1>8 DEF Next

LEMMA SpecInv == Spec => []IInv
  BY InitInv, NextInv, PTL DEF Spec

-----------------------------------------------------------------------------
(* Whatever is edited, reloaded, scraped and closed in whatever order, the *)
(* state of the supervisor has its type: in particular every resource runs *)
(* with settings it was given, and only what runs is to be closed.         *)
THEOREM TypeCorrect == Spec => []TypeOK
<1>1. IInv => TypeOK
  <2> SUFFICES ASSUME IInv PROVE TypeOK
    OBVIOUS
  <2>1. \A r \in Resources : /\ object[r].live \in BOOLEAN /\ object[r].settings \subseteq Settings[r]
                             /\ object[r].refs \cup object[r].dangling \subseteq Resources
    BY DEF IInv, StateInv, ObjectInv, Objects
  <2>2. \A p \in pending \cup {editor} : IsConf(p.conf) /\ p.number \in 0 .. MaxEdits
    BY DEF IInv, StateInv, Edits, IsConf
  <2> QED BY <2>1, <2>2 DEF IInv, StateInv, TypeOK, IsConf
<1> QED BY <1>1, SpecInv, PTL

(* closeResources: at no moment of a reload or of the end does what runs   *)
(* refer to what was closed, for every sequence of configurations; but for *)
(* the RTMPS server that the API keeps.                                    *)
THEOREM NoDanglingCorrect == Spec => []NoDanglingReference
<1>1. IInv => NoDanglingReference
  BY DEF IInv, ObjectInv, Forgotten, NoDanglingReference
<1> QED BY <1>1, SpecInv, PTL

(* closeResources and createResources: after every sequence of reloads the *)
(* server is what a start with the last configuration would make it, up to *)
(* the two fields and the reference that closeResources forgets.           *)
THEOREM ReloadedCorrect == Spec => []ReloadedLikeRestarted
<1>1. IInv => ReloadedLikeRestarted
  <2> SUFFICES ASSUME IInv, at = "serving", NEW r \in Resources
               PROVE  /\ object[r].live = Fresh[r].live
                      /\ Differs(object[r].settings, Fresh[r].settings) \subseteq NotCompared(r)
                      /\ Differs(object[r].refs, Fresh[r].refs) \subseteq (IF r = "api" THEN {"rtmps"} ELSE {})
    BY DEF ReloadedLikeRestarted
  <2>1. ObjectInv(r) /\ object[r].live \in BOOLEAN /\ (r \in Live => Kept(r, conf))
    BY DEF IInv, StateInv, Objects
  <2>2. Live = {q \in Resources : Enabled(q, conf)}
    BY DEF IInv, Live, Kept
  <2>3. CASE r \in Live
    <3>1. Fresh[r] = Object(conf \cap Settings[r], Wired(r, Live))
      BY <2>2, <2>3 DEF Fresh
    <3>2. /\ Fresh[r].live /\ Fresh[r].live \in BOOLEAN /\ Fresh[r].settings = conf \cap Settings[r]
          /\ Fresh[r].refs = Wired(r, Live)
      BY <3>1 DEF Object
    <3> QED BY <2>1, <2>3, <3>2 DEF Live, IsLive, Kept, ObjectInv, Forgotten, Differs
  <2>4. CASE r \notin Live
    <3>1. Fresh[r] = Absent
      BY <2>2, <2>4 DEF Fresh
    <3>2. object[r] = Absent
      BY <2>1, <2>4 DEF ObjectInv, Live
    <3> QED BY <3>1, <3>2 DEF Differs
  <2> QED BY <2>3, <2>4
<1> QED BY <1>1, SpecInv, PTL
=============================================================================
