------------------------------ MODULE PathManager ------------------------------
(***************************************************************************)
(* The path manager (internal/core/path_manager.go): the map from names    *)
(* to paths, the reload of the configuration, and its conversation with    *)
(* the goroutines of the paths and with the HLS server.                    *)
(*                                                                         *)
(* The inside of a path is Path.tla; here a path is where its goroutine    *)
(* stands towards the manager.  All channels are unbuffered: a message and *)
(* its handler are one step, a goroutine that waits to be served is in a   *)
(* phase named for what it has to say.                                     *)
(***************************************************************************)
EXTENDS Naturals, FiniteSets

CONSTANTS
    Names,           \* names of paths
    RegexpName,      \* the name of the configuration with a regular expression
    Kinds,           \* what a configuration holds that forces a path to be recreated
    Settings,        \* what is reloaded in place
    Configurations,  \* values of the "paths" section the administrator may load
    Paths,           \* identities of path objects
    Clients,         \* publishers, readers and describers
    Nobody,          \* no path, no source
    Handler,         \* the staticsources.Handler of a path, as its source
    HLSEnabled,      \* `hls: yes`: core creates the HLS server
    MaxCouriers      \* bound: no reload while so many changes are on their way

ConfNames == Names \cup {RegexpName}

(* conf.Path: its key in the section, "publisher" or "static", the rest.   *)
Conf == [name: ConfNames, kind: Kinds, setting: Settings]

ASSUME ConfigurationsAssumption ==
    \A cs \in Configurations :
        \E S \in SUBSET ConfNames :
            cs \in [S -> Conf] /\ \A x \in S : cs[x].name = x

ASSUME IdentitiesAssumption ==
    /\ RegexpName \notin Names /\ Kinds = {"publisher", "static"}
    /\ Nobody \notin Paths /\ Nobody \notin Clients /\ Nobody # Handler
    /\ Handler \notin Clients /\ MaxCouriers \in Nat /\ HLSEnabled \in BOOLEAN

HasStaticSource(c) == c.kind = "static"

(* pathConfCanBeUpdated: the name and the settings are hot. *)
CanBeUpdated(old, new) == new = [old EXCEPT !.name = new.name, !.setting = new.setting]

(* conf.FindPathConf: the section of that name, or the one with the regexp. *)
Configured(confs, n) == n \in DOMAIN confs \/ RegexpName \in DOMAIN confs
FindPathConf(confs, n) == IF n \in DOMAIN confs THEN confs[n] ELSE confs[RegexpName]

VARIABLES
    manager,    \* where the goroutine of the manager is
    ctxDone,    \* pm.ctx is done
    pathConfs,  \* pm.pathConfs
    paths,      \* pm.paths
    hlsServer,  \* pm.hlsServer is not nil
    path,       \* the goroutine of each path
    couriers,   \* goroutines `go path.reloadConf(conf)`
    clients,    \* what each client is doing
    hls         \* the goroutine of the HLS server and the paths it was told are ready

managerVars == <<manager, ctxDone, pathConfs, paths, hlsServer>>
vars == <<managerVars, path, couriers, clients, hls>>

(* pathData.  A name that is not in the map has NoData. *)
PathData == [path: Paths, ready: BOOLEAN, confName: ConfNames]
NoData == [path |-> Nobody, ready |-> FALSE, confName |-> RegexpName]

Missing(n) == paths[n] = NoData
Current(p) == \E n \in Names : paths[n].path = p

(* The manager serves its channels, or is inside doReloadConf ("reload",   *)
(* "wait" for a path it removed, "create"), or hands a change of readiness *)
(* to the HLS server, or its loop is over.                                 *)
At(where) == [at |-> where, new |-> pathConfs, todo |-> {}, path |-> Nobody, ready |-> FALSE]

Live == {"running", "tellReady", "tellNotReady", "closePath", "ending", "lastNotReady"}
Ended == [phase |-> "ended", name |-> Nobody, ctxDone |-> TRUE, conf |-> Nobody,
          source |-> Nobody, stream |-> FALSE]

Idle == [at |-> "idle", path |-> Nobody, want |-> "look"]

(* An object nothing refers to any more stands for a new one. *)
Fresh(p) ==
    /\ path[p] = Ended /\ ~Current(p)
    /\ \A k \in couriers : k.path # p
    /\ \A c \in Clients : clients[c].path # p

Init ==
    /\ pathConfs \in Configurations
    /\ manager = At("create")
    /\ ctxDone = FALSE
    /\ paths = [n \in Names |-> NoData]
    /\ hlsServer = FALSE
    /\ path = [p \in Paths |-> Ended]
    /\ couriers = {}
    /\ clients = [c \in Clients |-> Idle]
    /\ hls = [at |-> "none", told |-> {}]

-----------------------------------------------------------------------------
(* createPath and the first lines of path.run. *)

CreatePath(p, n, c) ==
    /\ Fresh(p)
    /\ paths' = [paths EXCEPT ![n] = [path |-> p, ready |-> FALSE, confName |-> c.name]]
    /\ path' = [path EXCEPT ![p] =
           [phase |-> "running", name |-> n, ctxDone |-> ctxDone, conf |-> c,
            source |-> IF HasStaticSource(c) THEN Handler ELSE Nobody, stream |-> FALSE]]

-----------------------------------------------------------------------------
(* doReloadConf.  The map is ranged over in any order. *)

Present == {n \in Names : ~Missing(n)}

ReloadPathConfs(new) ==
    /\ manager.at = "serving" /\ Cardinality(couriers) < MaxCouriers
    /\ manager' = [At("reload") EXCEPT !.new = new, !.todo = Present]
        /\ UNCHANGED <<ctxDone, pathConfs, paths, hlsServer, path, couriers, clients, hls>>

OldConf(n) == pathConfs[paths[n].confName]
NewConf(n) == FindPathConf(manager.new, n)

Reloading(n) == manager.at = "reload" /\ n \in manager.todo
Done(n) == [manager EXCEPT !.todo = @ \ {n}]

(* Faulty variant: a path that found another configuration is kept. *)
MustGo_KeepsMoved(n) ==
    Configured(manager.new, n) =>
        /\ NewConf(n).name = paths[n].confName
        /\ ~CanBeUpdated(OldConf(n), NewConf(n))

MustGo(n) == Configured(manager.new, n) => ~CanBeUpdated(OldConf(n), NewConf(n))

(* Faulty variant: the path is closed and not waited for. *)
Waiting_Not(n) == Done(n)

(* path.wait() *)
Waiting(n) == [Done(n) EXCEPT !.at = "wait", !.path = paths[n].path]

(* Faulty variant: what is known of the path is left in the map. *)
RemovePath_Half(n) == [paths EXCEPT ![n].path = Nobody]

(* removePath *)
RemovePath(n) == [paths EXCEPT ![n] = NoData]

(* removeAndClosePath *)
ReloadRemoves(n) ==
    /\ Reloading(n) /\ MustGo(n)
    /\ manager' = Waiting(n)
    /\ paths' = RemovePath(n)
    /\ path' = [path EXCEPT ![paths[n].path].ctxDone = TRUE]
    /\ UNCHANGED <<ctxDone, pathConfs, hlsServer, couriers, clients, hls>>

PathWaited ==
    /\ manager.at = "wait" /\ path[manager.path] = Ended
    /\ manager' = [manager EXCEPT !.at = "reload", !.path = Nobody]
    /\ UNCHANGED <<ctxDone, pathConfs, paths, hlsServer, path, couriers, clients, hls>>

Renamed(n) == [paths[n] EXCEPT !.confName = NewConf(n).name]

ReloadUpdates(n) ==
    /\ Reloading(n) /\ ~MustGo(n) /\ NewConf(n) # OldConf(n)
    /\ manager' = Done(n)
    /\ paths' = [paths EXCEPT ![n] = Renamed(n)]
    /\ couriers' = couriers \cup {[path |-> paths[n].path, conf |-> NewConf(n)]}
    /\ UNCHANGED <<ctxDone, pathConfs, hlsServer, path, clients, hls>>

ReloadKeeps(n) ==
    /\ Reloading(n) /\ ~MustGo(n) /\ NewConf(n) = OldConf(n)
    /\ manager' = Done(n)
    /\ UNCHANGED <<ctxDone, pathConfs, paths, hlsServer, path, couriers, clients, hls>>

PathsReloaded ==
    /\ manager.at = "reload" /\ manager.todo = {}
    /\ pathConfs' = manager.new
    /\ manager' = [manager EXCEPT !.at = "create"]
    /\ UNCHANGED <<ctxDone, paths, hlsServer, path, couriers, clients, hls>>

(* The loop over the configurations without a regexp, also in initialize. *)
ToCreate == {n \in Names \cap DOMAIN pathConfs : Missing(n)}

CreateStaticPath(n, p) ==
    /\ manager.at = "create" /\ n \in ToCreate
    /\ CreatePath(p, n, pathConfs[n])
    /\ UNCHANGED <<manager, ctxDone, pathConfs, hlsServer, couriers, clients, hls>>

StaticPathsCreated ==
    /\ manager.at = "create" /\ ToCreate = {}
    /\ manager' = At("serving")
    /\ UNCHANGED <<ctxDone, pathConfs, paths, hlsServer, path, couriers, clients, hls>>

-----------------------------------------------------------------------------
(* path.reloadConf: a goroutine per reload, which the path serves in any   *)
(* order, or which finds the context of the path done.                     *)

DoReloadConf(k) ==
    /\ k \in couriers /\ path[k.path].phase = "running"
    /\ path' = [path EXCEPT ![k.path].conf = k.conf]
    /\ couriers' = couriers \ {k}
    /\ UNCHANGED <<managerVars, clients, hls>>

ReloadConfSkipped(k) ==
    /\ k \in couriers /\ path[k.path].ctxDone
    /\ couriers' = couriers \ {k}
    /\ UNCHANGED <<managerVars, path, clients, hls>>

-----------------------------------------------------------------------------
(* What a path tells the manager.  A path whose context is done may skip   *)
(* it: that is how a removed path gets past a manager that waits for it.   *)

(* pm.paths[pa.name].path == pa *)
IsCurrent(p) == paths[path[p].name].path = p

SetReadyFlag(p, ready) ==
    IF IsCurrent(p)
    THEN /\ paths' = [paths EXCEPT ![path[p].name].ready = ready]
         /\ manager' = IF hlsServer
                       THEN [At("hls") EXCEPT !.path = p, !.ready = ready]
                       ELSE manager
    ELSE UNCHANGED <<paths, manager>>

DoPathReady(p) ==
    /\ manager.at = "serving" /\ path[p].phase = "tellReady"
    /\ SetReadyFlag(p, TRUE)
    /\ path' = [path EXCEPT ![p].phase = "running"]
    /\ UNCHANGED <<ctxDone, pathConfs, hlsServer, couriers, clients, hls>>

PathReadySkipped(p) ==
    /\ path[p].phase = "tellReady" /\ path[p].ctxDone
    /\ path' = [path EXCEPT ![p].phase = "running"]
    /\ UNCHANGED <<managerVars, couriers, clients, hls>>

(* path.shouldClose: nobody is kept waiting by the paths of this module. *)
ShouldClose(pa) == pa.conf.name = RegexpName /\ pa.source = Nobody
Continue(pa) == [pa EXCEPT !.phase = IF ShouldClose(pa) THEN "closePath" ELSE "running"]

(* Faulty variant: the stream is closed and not forgotten. *)
StreamClosed_Kept(pa) ==
    IF pa.phase = "lastNotReady"
    THEN [pa EXCEPT !.phase = "ending"]
    ELSE Continue([pa EXCEPT !.stream = FALSE,
                             !.source = IF @ = Handler THEN Handler ELSE Nobody])

(* The rest of setNotReady and of its callers: a publisher that leaves, a  *)
(* static source that fails, or the end of the path.                       *)
StreamClosed(pa) ==
    IF pa.phase = "lastNotReady"
    THEN [pa EXCEPT !.stream = FALSE, !.phase = "ending"]
    ELSE Continue([pa EXCEPT !.stream = FALSE,
                             !.source = IF @ = Handler THEN Handler ELSE Nobody])

DoPathNotReady(p) ==
    /\ manager.at = "serving" /\ path[p].phase \in {"tellNotReady", "lastNotReady"}
    /\ SetReadyFlag(p, FALSE)
    /\ path' = [path EXCEPT ![p] = StreamClosed(@)]
    /\ UNCHANGED <<ctxDone, pathConfs, hlsServer, couriers, clients, hls>>

PathNotReadySkipped(p) ==
    /\ path[p].phase \in {"tellNotReady", "lastNotReady"} /\ path[p].ctxDone
    /\ path' = [path EXCEPT ![p] = StreamClosed(@)]
    /\ UNCHANGED <<managerVars, couriers, clients, hls>>

PathClosed(p) == [path EXCEPT ![p].phase = "ending", ![p].ctxDone = TRUE]

DoClosePath(p) ==
    /\ manager.at = "serving" /\ path[p].phase = "closePath"
    /\ paths' = IF IsCurrent(p) THEN RemovePath(path[p].name) ELSE paths
    /\ path' = PathClosed(p)
    /\ UNCHANGED <<manager, ctxDone, pathConfs, hlsServer, couriers, clients, hls>>

ClosePathSkipped(p) ==
    /\ path[p].phase = "closePath" /\ path[p].ctxDone
    /\ path' = PathClosed(p)
    /\ UNCHANGED <<managerVars, couriers, clients, hls>>

-----------------------------------------------------------------------------
(* The goroutine of a path. *)

SourceReady(p) ==
    /\ path[p].phase = "running" /\ path[p].source = Handler /\ ~path[p].stream
    /\ path' = [path EXCEPT ![p].stream = TRUE, ![p].phase = "tellReady"]
    /\ UNCHANGED <<managerVars, couriers, clients, hls>>

SourceNotReady(p) ==
    /\ path[p].phase = "running" /\ path[p].source = Handler /\ path[p].stream
    /\ path' = [path EXCEPT ![p].phase = "tellNotReady"]
    /\ UNCHANGED <<managerVars, couriers, clients, hls>>

RunInnerTerminated(p) ==
    /\ path[p].phase = "running" /\ path[p].ctxDone
    /\ path' = [path EXCEPT ![p].phase = "closePath"]
    /\ UNCHANGED <<managerVars, couriers, clients, hls>>

LastNotReady(p) ==
    /\ path[p].phase = "ending" /\ path[p].stream
    /\ path' = [path EXCEPT ![p].phase = "lastNotReady"]
    /\ UNCHANGED <<managerVars, couriers, clients, hls>>

(* The source is closed and close(pa.done) is called.  The muxers the HLS  *)
(* server had for this path were its readers: setNotReady closed them.     *)
PathEnds(p) ==
    /\ path[p].phase = "ending" /\ ~path[p].stream
    /\ path' = [path EXCEPT ![p] = Ended]
    /\ hls' = [hls EXCEPT !.told = @ \ {p}]
    /\ UNCHANGED <<managerVars, couriers, clients>>

-----------------------------------------------------------------------------
(* Describe, AddReader, AddPublisher: the manager finds or creates the     *)
(* path, then the client speaks with the path.  A request that is refused  *)
(* (no configuration, authentication, "configuration has changed") changes *)
(* nothing.                                                                *)

Asked(p, want) == [at |-> "asked", path |-> p, want |-> want]

RequestFound(c, n, want) ==
    /\ manager.at = "serving" /\ clients[c].at = "idle"
    /\ Configured(pathConfs, n) /\ ~Missing(n)
    /\ clients' = [clients EXCEPT ![c] = Asked(paths[n].path, want)]
    /\ UNCHANGED <<managerVars, path, couriers, hls>>

RequestCreates(c, n, want, p) ==
    /\ manager.at = "serving" /\ clients[c].at = "idle"
    /\ Configured(pathConfs, n) /\ Missing(n)
    /\ CreatePath(p, n, FindPathConf(pathConfs, n))
    /\ clients' = [clients EXCEPT ![c] = Asked(p, want)]
    /\ UNCHANGED <<manager, ctxDone, pathConfs, hlsServer, couriers, hls>>

Serves(c, want) ==
    /\ clients[c].at = "asked" /\ clients[c].want = want
    /\ path[clients[c].path].phase = "running"

(* doDescribe and doAddReader, which end a path of the regexp nobody uses. *)
DoDescribe(c) ==
    /\ Serves(c, "look")
    /\ path' = [path EXCEPT ![clients[c].path] = Continue(@)]
    /\ clients' = [clients EXCEPT ![c] = Idle]
    /\ UNCHANGED <<managerVars, couriers, hls>>

CanPublish(pa) == ~HasStaticSource(pa.conf) /\ pa.source = Nobody

DoAddPublisher(c) ==
    LET p == clients[c].path IN
    /\ Serves(c, "publish") /\ CanPublish(path[p])
    /\ path' = [path EXCEPT ![p].source = c, ![p].stream = TRUE, ![p].phase = "tellReady"]
    /\ clients' = [clients EXCEPT ![c].at = "publishing"]
    /\ UNCHANGED <<managerVars, couriers, hls>>

DoAddPublisherRefused(c) ==
    /\ Serves(c, "publish") /\ ~CanPublish(path[clients[c].path])
    /\ clients' = [clients EXCEPT ![c] = Idle]
    /\ UNCHANGED <<managerVars, path, couriers, hls>>

(* The client finds the context of the path done. *)
PathGone(c) ==
    LET p == clients[c].path IN
    /\ clients[c].at \in {"asked", "publishing"} /\ path[p].ctxDone
    /\ clients[c].at = "publishing" => path[p].phase # "tellReady"
    /\ clients' = [clients EXCEPT ![c] = Idle]
    /\ UNCHANGED <<managerVars, path, couriers, hls>>

DoRemovePublisher(c) ==
    /\ clients[c].at = "publishing" /\ path[clients[c].path].phase = "running"
    /\ path' = [path EXCEPT ![clients[c].path].phase = "tellNotReady"]
    /\ clients' = [clients EXCEPT ![c] = Idle]
    /\ UNCHANGED <<managerVars, couriers, hls>>

-----------------------------------------------------------------------------
(* The HLS server: created and closed by core, tells the manager so, and   *)
(* is told about every path that becomes ready or not.                     *)

HLSStarts ==
    /\ HLSEnabled /\ hls.at = "none" /\ ~ctxDone
    /\ hls' = [at |-> "setting", told |-> {}]
    /\ UNCHANGED <<managerVars, path, couriers, clients>>

(* Faulty variant: the new server is not told who is ready already. *)
ReadyPaths_None == {}

ReadyPaths == {paths[n].path : n \in {m \in Names : paths[m].ready}}

DoSetHLSServer ==
    /\ hls.at = "setting" /\ manager.at = "serving"
    /\ hlsServer' = TRUE
    /\ hls' = [at |-> "serving", told |-> ReadyPaths]
    /\ UNCHANGED <<manager, ctxDone, pathConfs, paths, path, couriers, clients>>

HLSTakes ==
    /\ manager.at = "hls" /\ hls.at = "serving"
    /\ hls' = [hls EXCEPT !.told = IF manager.ready THEN @ \cup {manager.path}
                                                    ELSE @ \ {manager.path}]
    /\ manager' = At("serving")
    /\ UNCHANGED <<ctxDone, pathConfs, paths, hlsServer, path, couriers, clients>>

(* The context of the HLS server is done: the manager does not wait. *)
HLSSkipped ==
    /\ manager.at = "hls" /\ hls.at # "serving"
    /\ manager' = At("serving")
    /\ UNCHANGED <<ctxDone, pathConfs, paths, hlsServer, path, couriers, clients, hls>>

HLSCloses ==
    /\ hls.at = "serving"
    /\ hls' = [at |-> "closing", told |-> {}]
    /\ UNCHANGED <<managerVars, path, couriers, clients>>

(* The deferred SetHLSServer(nil), and either call when pm.ctx is done.    *)
DoUnsetHLSServer ==
    /\ hls.at = "closing" /\ manager.at = "serving"
    /\ hlsServer' = FALSE
    /\ hls' = [hls EXCEPT !.at = "none"]
    /\ UNCHANGED <<manager, ctxDone, pathConfs, paths, path, couriers, clients>>

SetHLSServerSkipped ==
    /\ ctxDone /\ hls.at \in {"setting", "closing"}
    /\ hls' = [hls EXCEPT !.at = "none"]
    /\ UNCHANGED <<managerVars, path, couriers, clients>>

-----------------------------------------------------------------------------
(* pathManager.close: the contexts of the paths are children of pm.ctx.    *)

Close ==
    /\ ~ctxDone
    /\ ctxDone' = TRUE
    /\ path' = [p \in Paths |-> [path[p] EXCEPT !.ctxDone = TRUE]]
    /\ UNCHANGED <<manager, pathConfs, paths, hlsServer, couriers, clients, hls>>

RunTerminated ==
    /\ manager.at = "serving" /\ ctxDone
    /\ manager' = At("ended")
    /\ UNCHANGED <<ctxDone, pathConfs, paths, hlsServer, path, couriers, clients, hls>>

-----------------------------------------------------------------------------
Wants == {"look", "publish"}

Reload ==
    \/ \E new \in Configurations : ReloadPathConfs(new)
    \/ \E n \in Names : ReloadRemoves(n) \/ ReloadUpdates(n) \/ ReloadKeeps(n)
    \/ PathWaited
    \/ PathsReloaded
    \/ \E n \in Names, p \in Paths : CreateStaticPath(n, p)
    \/ StaticPathsCreated

PathTells(p) ==
    \/ DoPathReady(p) \/ PathReadySkipped(p)
    \/ DoPathNotReady(p) \/ PathNotReadySkipped(p)
    \/ DoClosePath(p) \/ ClosePathSkipped(p)

PathRuns(p) ==
    \/ SourceReady(p) \/ SourceNotReady(p)
    \/ RunInnerTerminated(p) \/ LastNotReady(p) \/ PathEnds(p)

ClientAnswered(c) == DoDescribe(c) \/ DoAddPublisher(c) \/ DoAddPublisherRefused(c) \/ PathGone(c)

ClientSteps(c) ==
    \/ \E n \in Names, w \in Wants : RequestFound(c, n, w)
    \/ \E n \in Names, w \in Wants, p \in Paths : RequestCreates(c, n, w, p)
    \/ ClientAnswered(c)
    \/ DoRemovePublisher(c)

HLSSteps ==
    \/ HLSStarts \/ DoSetHLSServer \/ HLSTakes \/ HLSSkipped
    \/ HLSCloses \/ DoUnsetHLSServer \/ SetHLSServerSkipped

AllEnded ==
    /\ manager.at = "ended" /\ hls.at = "none" /\ couriers = {}
    /\ \A p \in Paths : path[p] = Ended
    /\ \A c \in Clients : clients[c] = Idle
    /\ UNCHANGED vars

Next ==
    \/ Reload
    \/ \E k \in couriers : DoReloadConf(k) \/ ReloadConfSkipped(k)
    \/ \E p \in Paths : PathTells(p) \/ PathRuns(p)
    \/ \E c \in Clients : ClientSteps(c)
    \/ HLSSteps
    \/ Close \/ RunTerminated
    \/ AllEnded

Spec == Init /\ [][Next]_vars

(* Go's select takes a ready case at random: a sender that is ready again  *)
(* and again is served (strong fairness).  Nothing obliges clients to      *)
(* come, a publisher to leave, or core to reload or close.                 *)
Fairness ==
    /\ \A n \in Names : WF_vars(ReloadRemoves(n) \/ ReloadUpdates(n) \/ ReloadKeeps(n))
    /\ WF_vars(PathWaited) /\ WF_vars(PathsReloaded) /\ WF_vars(StaticPathsCreated)
    /\ WF_vars(\E n \in Names, p \in Paths : CreateStaticPath(n, p))
    /\ \A p \in Paths : SF_vars(PathTells(p)) /\ SF_vars(RunInnerTerminated(p))
    /\ \A p \in Paths : WF_vars(LastNotReady(p)) /\ WF_vars(PathEnds(p))
    /\ \A c \in Clients : SF_vars(ClientAnswered(c))
    /\ WF_vars(HLSTakes) /\ WF_vars(HLSSkipped)
    /\ SF_vars(RunTerminated)

FairSpec == Spec /\ Fairness

-----------------------------------------------------------------------------
PathGoroutine ==
    [phase: Live, name: Names, ctxDone: BOOLEAN, conf: Conf,
     source: Clients \cup {Handler, Nobody}, stream: BOOLEAN]

ConfsFit(confs) ==
    \E S \in SUBSET ConfNames : confs \in [S -> Conf] /\ \A x \in S : confs[x].name = x

(* Every variable has its type. *)
TypeOK ==
    /\ manager.at \in {"serving", "reload", "wait", "create", "hls", "ended"}
    /\ ConfsFit(manager.new) /\ manager.todo \subseteq Names
    /\ manager.path \in Paths \cup {Nobody} /\ manager.ready \in BOOLEAN
    /\ ctxDone \in BOOLEAN /\ hlsServer \in BOOLEAN
    /\ ConfsFit(pathConfs)
    /\ paths \in [Names -> PathData \cup {NoData}]
    /\ path \in [Paths -> PathGoroutine \cup {Ended}]
    /\ couriers \subseteq [path: Paths, conf: Conf]
    /\ clients \in [Clients -> [at: {"idle", "asked", "publishing"},
                               path: Paths \cup {Nobody}, want: Wants]]
    /\ hls \in [at: {"none", "setting", "serving", "closing"}, told: SUBSET Paths]

(* "avoid conflicts between sources": two goroutines of one name, an old   *)
(* one that is ending and a new one, never have a source at the same time, *)
(* until pm.ctx is done: then the manager may still serve a closePath and  *)
(* a request that creates the path anew while the source is being closed.  *)
OneSourcePerName ==
    ~ctxDone => \A p, q \in Paths :
        /\ p # q
        /\ path[p] # Ended /\ path[q] # Ended
        /\ path[p].name = path[q].name
        => path[p].source = Nobody \/ path[q].source = Nobody

(* While the server runs, the map and the goroutines agree: whoever is in  *)
(* the map is alive and under its own name, whoever is not in the map is   *)
(* ending; the ready flag is the stream, unless the path is about to say   *)
(* so; the HLS server knows exactly which of the paths in the map are      *)
(* ready, whenever it came.                                                *)
ManagerView ==
    ~ctxDone =>
    /\ \A n \in Present : LET pa == path[paths[n].path] IN
           /\ pa.name = n /\ ~pa.ctxDone
           /\ pa.phase \in {"running", "tellReady", "tellNotReady", "closePath"}
           /\ paths[n].ready = (pa.stream /\ pa.phase # "tellReady")
    /\ \A p \in Paths : Current(p) \/ path[p].ctxDone
    /\ manager.at = "serving" /\ hls.at = "serving" =>
           \A n \in Present : paths[n].ready = (paths[n].path \in hls.told)

(* After any sequence of reloads a path that was kept has the section that *)
(* FindPathConf gives for its name, of the kind its source was made for,   *)
(* so that what is brought to it can be applied in place (path.go:362      *)
(* would panic otherwise), and a static source that is configured runs.    *)
MapFollowsConfiguration ==
    /\ manager.at = "serving" => \A n \in Present :
           /\ Configured(pathConfs, n)
           /\ paths[n].confName = FindPathConf(pathConfs, n).name
           /\ path[paths[n].path] # Ended =>
                  path[paths[n].path].conf.kind = FindPathConf(pathConfs, n).kind
    /\ \A k \in couriers : ~path[k.path].ctxDone => k.conf.kind = path[k.path].conf.kind
    /\ \A p \in Paths : path[p] # Ended =>
           (HasStaticSource(path[p].conf) <=> path[p].source = Handler)
    /\ manager.at = "serving" /\ ~ctxDone =>
           \A n \in Names \cap DOMAIN pathConfs :
               HasStaticSource(pathConfs[n]) => ~Missing(n)

(* Nobody waits for ever: the manager comes back from every reload and     *)
(* from the HLS server, a path that was told to end does, what a path      *)
(* tells is heard, a client is answered, and after close() all is over.    *)
NobodyWaitsForEver ==
    /\ []<>(manager.at \in {"serving", "ended"})
    /\ \A p \in Paths :
           /\ (path[p] # Ended /\ path[p].ctxDone) ~> path[p] = Ended
           /\ path[p].phase = "closePath" ~> path[p] = Ended
           /\ path[p].phase \in {"tellReady", "tellNotReady"}
              ~> path[p].phase \notin {"tellReady", "tellNotReady"}
    /\ \A c \in Clients : clients[c].at = "asked" ~> clients[c].at # "asked"
    /\ ctxDone ~> (manager.at = "ended" /\ \A p \in Paths : path[p] = Ended)
=============================================================================
