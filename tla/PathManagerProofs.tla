--------------------------- MODULE PathManagerProofs ---------------------------
(***************************************************************************)
(* Theorems about PathManager, for all names, configurations, clients and  *)
(* numbers of paths: the types, the view the manager has of its paths, the *)
(* configuration its map follows, and that no two sources of one name      *)
(* exist at a time.                                                        *)
(***************************************************************************)
EXTENDS PathManager, TLAPS

(* Who is not idle refers to a path.                                       *)
ClientsRefer ==
    /\ clients \in [Clients -> [at: {"idle", "asked", "publishing"},
                               path: Paths \cup {Nobody}, want: Wants]]
    /\ \A c \in Clients : clients[c].at # "idle" => clients[c].path \in Paths

(* What the manager holds while it is inside a handler, and whom the       *)
(* clients and the HLS server refer to.                                    *)
ManagerInv ==
    /\ manager = [at |-> manager.at, new |-> manager.new, todo |-> manager.todo,
                  path |-> manager.path, ready |-> manager.ready]
    /\ manager.todo \subseteq Present
    /\ manager.at \notin {"reload", "wait"} => manager.todo = {}
    /\ manager.at \in {"wait", "hls"} => manager.path \in Paths
    /\ ClientsRefer
    /\ hls.at = "serving" => hlsServer

(* A path says that it became ready while it has a stream; a stream has a  *)
(* source; a path that nobody uses asks to be closed when it has none.     *)
Sane(pa) ==
    /\ pa.phase = "tellReady" => pa.stream
    /\ pa.stream => pa.source # Nobody
    /\ pa.phase = "closePath" /\ ~pa.ctxDone => pa.source = Nobody
    /\ pa.phase \in {"ending", "lastNotReady"} => pa.ctxDone
    /\ HasStaticSource(pa.conf) <=> pa.source = Handler

PathInv ==
    /\ \A p \in Paths : path[p] # Ended => Sane(path[p])
    /\ \A n \in Present : path[paths[n].path] # Ended => path[paths[n].path].name = n

(* The entry of the map for n, and its path, fit the configuration.        *)
Fits(confs, n) ==
    /\ Configured(confs, n)
    /\ paths[n].confName = FindPathConf(confs, n).name
    /\ path[paths[n].path] # Ended => path[paths[n].path].conf.kind = FindPathConf(confs, n).kind

(* In the middle of a reload a path fits the old configuration until it is *)
(* its turn, and the new one from then on.                                 *)
InForce(n) ==
    IF manager.at \in {"reload", "wait"} /\ n \notin manager.todo THEN manager.new ELSE pathConfs

ConfInv ==
    /\ \A n \in Present : Fits(InForce(n), n)
    /\ \A k \in couriers : path[k.path] # Ended => k.conf.kind = path[k.path].conf.kind
    /\ manager.at \in {"serving", "hls"} /\ ~ctxDone =>
           \A n \in Names \cap DOMAIN pathConfs : HasStaticSource(pathConfs[n]) => ~Missing(n)

(* What is in the map is alive, and its ready flag is the stream.          *)
InMap(n) == LET pa == path[paths[n].path] IN
    /\ pa.name = n /\ ~pa.ctxDone
    /\ pa.phase \in {"running", "tellReady", "tellNotReady", "closePath"}
    /\ paths[n].ready = (pa.stream /\ pa.phase # "tellReady")

WaitedFor(p) == manager.at = "wait" /\ manager.path = p

(* What is not in the map has ended, but for the source-less end of a path *)
(* that nobody used, and for the path the manager is waiting for.          *)
NotInMap(p) ==
    /\ path[p].ctxDone
    /\ path[p] # Ended =>
           IF WaitedFor(p)
           THEN Missing(path[p].name)
           ELSE path[p].source = Nobody /\ path[p].phase = "ending"

(* The manager is about to tell the HLS server of the path of n.           *)
BeingTold(n) == manager.at = "hls" /\ manager.path = paths[n].path

(* While pm.ctx is not done. *)
View ==
    /\ \A n \in Present : InMap(n)
    /\ \A p \in Paths : Current(p) \/ NotInMap(p)
    /\ manager.at = "wait" => ~Current(manager.path)
    /\ manager.at = "hls" => Current(manager.path)
    /\ \A p \in hls.told : path[p] # Ended
    /\ \A n \in Present : BeingTold(n) => paths[n].ready = manager.ready
    /\ hls.at = "serving" =>
           \A n \in Present : BeingTold(n) \/ paths[n].ready = (paths[n].path \in hls.told)

IInv == TypeOK /\ ManagerInv /\ PathInv /\ ConfInv /\ (~ctxDone => View)

-----------------------------------------------------------------------------
(* Facts about the records.                                                *)

LEMMA Entries ==
    ASSUME TypeOK
    PROVE  /\ \A n \in Present : paths[n] \in PathData
           /\ \A n \in Names, p \in Paths : paths[n].path = p => n \in Present
  BY IdentitiesAssumption DEF TypeOK, Present, Missing, NoData

LEMMA Goroutines ==
    /\ \A pa \in PathGoroutine : pa # Ended /\ pa.phase \in Live /\ pa.phase # "ended"
    /\ Ended.phase = "ended" /\ Ended.ctxDone /\ ~Ended.stream
  BY DEF PathGoroutine, Ended, Live

-----------------------------------------------------------------------------
(* A step of one path that lives on and keeps its name, its kind and its   *)
(* context; the map is not touched, and what it says stays true.           *)

OnePath(p) ==
    /\ path[p] \in PathGoroutine /\ path' \in [Paths -> PathGoroutine \cup {Ended}]
    /\ \A q \in Paths \ {p} : path'[q] = path[q]
    /\ path'[p] \in PathGoroutine
    /\ path'[p].name = path[p].name /\ path'[p].conf.kind = path[p].conf.kind
    /\ UNCHANGED <<managerVars, hls>> /\ couriers' \subseteq couriers

StillInMap(p) ==
    /\ ~path'[p].ctxDone
    /\ path'[p].phase \in {"running", "tellReady", "tellNotReady", "closePath"}
    /\ (path'[p].stream /\ path'[p].phase # "tellReady") =
           (path[p].stream /\ path[p].phase # "tellReady")

StillNotInMap(p) ==
    /\ path'[p].ctxDone
    /\ path[p].source = Nobody /\ path[p].phase = "ending" =>
           path'[p].source = Nobody /\ path'[p].phase = "ending"

LEMMA OnePathInv ==
    ASSUME NEW p \in Paths, TypeOK, PathInv, ConfInv, OnePath(p), Sane(path'[p])
    PROVE  PathInv' /\ ConfInv'
<1> USE Goroutines, Entries DEF OnePath
<1>1. \A q \in Paths : path'[q] # Ended <=> path[q] # Ended
  OBVIOUS
<1>2. \A q \in Paths : path[q] # Ended =>
          path'[q].name = path[q].name /\ path'[q].conf.kind = path[q].conf.kind
  OBVIOUS
<1>3. Present' = Present /\ paths' = paths /\ manager' = manager /\ pathConfs' = pathConfs
      /\ ctxDone' = ctxDone
  BY DEF Present, Missing, managerVars
<1>4. PathInv'
  BY <1>1, <1>2, <1>3 DEF PathInv, PathData
<1>5. \A n \in Present : Fits(InForce(n), n)'
  BY <1>1, <1>2, <1>3 DEF ConfInv, Fits, InForce, PathData
<1>6. \A k \in couriers' : path'[k.path] # Ended => k.conf.kind = path'[k.path].conf.kind
  BY <1>1, <1>2 DEF ConfInv, TypeOK
<1> QED BY <1>3, <1>4, <1>5, <1>6 DEF ConfInv, Missing

LEMMA OnePathView ==
    ASSUME NEW p \in Paths, TypeOK, PathInv, View, OnePath(p),
           path[p].ctxDone => StillNotInMap(p), ~path[p].ctxDone => StillInMap(p)
    PROVE  View'
<1> USE Goroutines, Entries DEF OnePath
<1>1. Present' = Present /\ paths' = paths /\ manager' = manager /\ hls' = hls
      /\ \A q \in Paths : Current(q)' = Current(q)
  BY DEF Present, Missing, managerVars, Current
<1>2. \A q \in Paths : path'[q] # Ended <=> path[q] # Ended
  OBVIOUS
<1>3. ASSUME NEW n \in Present PROVE InMap(n)'
  <2>1. InMap(n) /\ paths[n].path \in Paths
    BY DEF View, PathData
  <2>2. CASE paths[n].path = p
    BY <1>1, <2>1, <2>2 DEF InMap, StillInMap
  <2>3. CASE paths[n].path # p
    BY <1>1, <2>1, <2>3 DEF InMap
  <2> QED BY <2>2, <2>3
<1>4. \A q \in Paths : Current(q) \/ NotInMap(q)'
  BY <1>1, <1>2 DEF View, NotInMap, StillNotInMap, StillInMap, WaitedFor, Missing
<1>5. hls.told \subseteq Paths
  BY DEF TypeOK
<1>6. (/\ manager.at = "wait" => ~Current(manager.path)
       /\ manager.at = "hls" => Current(manager.path))'
  BY <1>1 DEF View, Current
<1> QED BY <1>1, <1>2, <1>3, <1>4, <1>5, <1>6 DEF View, BeingTold

LEMMA Cancelled ==
    ASSUME NEW pa \in PathGoroutine, NEW pb, pb = [pa EXCEPT !.ctxDone = TRUE]
    PROVE  /\ pb \in PathGoroutine /\ pb.name = pa.name /\ pb.conf = pa.conf
           /\ pb.source = pa.source /\ pb.stream = pa.stream /\ pb.phase = pa.phase
           /\ pb.ctxDone
<1>1. pb \in PathGoroutine
  BY DEF PathGoroutine, Live
<1> QED BY <1>1 DEF PathGoroutine

LEMMA OnePathStep ==
    ASSUME NEW p \in Paths, IInv, OnePath(p), Sane(path'[p]), ClientsRefer',
           ~ctxDone /\ path[p].ctxDone => StillNotInMap(p),
           ~ctxDone /\ ~path[p].ctxDone => StillInMap(p)
    PROVE  IInv'
<1> USE DEF OnePath, managerVars
<1>1. TypeOK' /\ ManagerInv'
  BY DEF IInv, TypeOK, ManagerInv, ClientsRefer, Present, Missing
<1>2. PathInv' /\ ConfInv'
  BY OnePathInv DEF IInv
<1>3. (~ctxDone => View)'
  BY OnePathView DEF IInv
<1> QED BY <1>1, <1>2, <1>3 DEF IInv

(* The goroutine of a path by itself, and with a message to a manager that *)
(* has forgotten it.                                                       *)
LEMMA PathRunsStep ==
    ASSUME NEW p \in Paths, IInv,
           \/ SourceReady(p) \/ SourceNotReady(p) \/ RunInnerTerminated(p) \/ LastNotReady(p)
           \/ PathReadySkipped(p) \/ PathNotReadySkipped(p) \/ ClosePathSkipped(p)
    PROVE  IInv'
<1> DEFINE pa == path[p]  pb == path'[p]
<1>1. pa \in PathGoroutine \cup {Ended} /\ path \in [Paths -> PathGoroutine \cup {Ended}]
  BY DEF IInv, TypeOK
<1>2. pa.phase # "ended"
  BY DEF SourceReady, SourceNotReady, RunInnerTerminated, LastNotReady, PathReadySkipped,
     PathNotReadySkipped, ClosePathSkipped
<1>3. pa \in PathGoroutine /\ Sane(pa)
  BY <1>1, <1>2, Goroutines DEF IInv, PathInv
<1>4. OnePath(p) /\ Sane(pb) /\ clients' = clients /\ pb.ctxDone = pa.ctxDone
  <2> USE <1>1, <1>3 DEF OnePath, Sane, PathGoroutine, Live, HasStaticSource
  <2>1. CASE SourceReady(p) \/ SourceNotReady(p)
    BY <2>1, IdentitiesAssumption DEF SourceReady, SourceNotReady
  <2>2. CASE RunInnerTerminated(p) \/ LastNotReady(p) \/ PathReadySkipped(p)
    BY <2>2 DEF RunInnerTerminated, LastNotReady, PathReadySkipped
  <2>3. CASE PathNotReadySkipped(p)
    BY <2>3, IdentitiesAssumption DEF PathNotReadySkipped, StreamClosed, Continue, ShouldClose
  <2>4. CASE ClosePathSkipped(p)
    BY <2>4 DEF ClosePathSkipped, PathClosed
  <2> QED BY <2>1, <2>2, <2>3, <2>4
<1>5. pa.ctxDone => StillNotInMap(p)
  BY <1>3, <1>4 DEF StillNotInMap, Sane, SourceReady, SourceNotReady, RunInnerTerminated,
     LastNotReady, PathReadySkipped, PathNotReadySkipped, ClosePathSkipped
<1>6. ~pa.ctxDone => StillInMap(p)
  BY <1>1, <1>3, <1>4 DEF StillInMap, SourceReady, SourceNotReady, RunInnerTerminated,
     LastNotReady, PathReadySkipped, PathNotReadySkipped, ClosePathSkipped, Sane, PathGoroutine
<1>7. ClientsRefer'
  BY <1>4 DEF IInv, ManagerInv, ClientsRefer
<1> QED BY <1>4, <1>5, <1>6, <1>7, OnePathStep

(* A client, or a configuration, that a path serves.                       *)
LEMMA ServedStep ==
    ASSUME NEW c \in Clients, IInv, DoDescribe(c) \/ DoAddPublisher(c) \/ DoRemovePublisher(c)
    PROVE  IInv'
<1> DEFINE p == clients[c].path  pa == path[p]  pb == path'[p]
<1>1. p \in Paths /\ pa.phase = "running" /\ hls' = hls /\ couriers' = couriers
      /\ UNCHANGED managerVars
  BY DEF IInv, ManagerInv, ClientsRefer, DoDescribe, DoAddPublisher, DoRemovePublisher, Serves
<1>2. path \in [Paths -> PathGoroutine \cup {Ended}]
  BY DEF IInv, TypeOK
<1>3. pa \in PathGoroutine /\ Sane(pa)
  BY <1>1, <1>2, Goroutines DEF IInv, PathInv
<1>4. OnePath(p) /\ Sane(pb) /\ pb.ctxDone = pa.ctxDone
  <2> USE <1>1, <1>2, <1>3 DEF OnePath, Sane, PathGoroutine, Live, HasStaticSource
  <2>1. CASE DoDescribe(c)
    BY <2>1 DEF DoDescribe, Continue, ShouldClose
  <2>2. CASE DoAddPublisher(c)
    BY <2>2, IdentitiesAssumption DEF DoAddPublisher, CanPublish
  <2>3. CASE DoRemovePublisher(c)
    BY <2>3 DEF DoRemovePublisher
  <2> QED BY <2>1, <2>2, <2>3
<1>5. pa.ctxDone => StillNotInMap(p)
  BY <1>1, <1>4 DEF StillNotInMap
<1>6. ~pa.ctxDone => StillInMap(p)
  <2> USE <1>1, <1>2, <1>3, <1>4 DEF StillInMap, PathGoroutine
  <2>1. CASE DoDescribe(c)
    BY <2>1 DEF DoDescribe, Continue
  <2>2. CASE DoAddPublisher(c)
    BY <2>2 DEF DoAddPublisher, CanPublish, Sane
  <2>3. CASE DoRemovePublisher(c)
    BY <2>3 DEF DoRemovePublisher
  <2> QED BY <2>1, <2>2, <2>3
<1>7. ClientsRefer'
  <2> USE <1>1 DEF IInv, ManagerInv, ClientsRefer
  <2>1. CASE DoAddPublisher(c)
    BY <2>1 DEF DoAddPublisher
  <2>2. CASE DoDescribe(c) \/ DoRemovePublisher(c)
    BY <2>2 DEF DoDescribe, DoRemovePublisher, Idle, Wants
  <2> QED BY <2>1, <2>2
<1> QED BY <1>1, <1>4, <1>5, <1>6, <1>7, OnePathStep

LEMMA CourierStep ==
    ASSUME NEW k \in couriers, IInv, DoReloadConf(k) \/ ReloadConfSkipped(k)
    PROVE  IInv'
<1> DEFINE p == k.path
<1>1. p \in Paths /\ k.conf \in Conf /\ path \in [Paths -> PathGoroutine \cup {Ended}]
  BY DEF IInv, TypeOK
<1>2. ClientsRefer'
  BY DEF IInv, ManagerInv, ClientsRefer, DoReloadConf, ReloadConfSkipped
<1>3. CASE DoReloadConf(k)
  <2>1. path[p] \in PathGoroutine /\ Sane(path[p]) /\ k.conf.kind = path[p].conf.kind
    BY <1>1, <1>3, Goroutines DEF IInv, PathInv, ConfInv, DoReloadConf
  <2>2. OnePath(p) /\ Sane(path'[p]) /\ path'[p].ctxDone = path[p].ctxDone
    BY <1>1, <1>3, <2>1 DEF DoReloadConf, OnePath, Sane, PathGoroutine, HasStaticSource
  <2>3. (path[p].ctxDone => StillNotInMap(p)) /\ (~path[p].ctxDone => StillInMap(p))
    BY <1>1, <1>3, <2>1, <2>2 DEF DoReloadConf, StillNotInMap, StillInMap, PathGoroutine
  <2> QED BY <1>1, <1>2, <2>2, <2>3, OnePathStep
<1>4. CASE ReloadConfSkipped(k)
  <2> USE <1>4 DEF IInv, ReloadConfSkipped, managerVars
  <2>1. TypeOK' /\ ManagerInv' /\ PathInv'
    BY <1>2 DEF TypeOK, ManagerInv, PathInv, Present, Missing
  <2>2. ConfInv'
    BY DEF ConfInv, Present, Missing, Fits, InForce
  <2>3. (~ctxDone => View)'
    BY DEF View, InMap, NotInMap, Present, Missing, Current, BeingTold, WaitedFor
  <2> QED BY <2>1, <2>2, <2>3
<1> QED BY <1>3, <1>4

(* Nothing but the clients changes.                                        *)
LEMMA ClientStep ==
    ASSUME NEW c \in Clients, IInv,
           \/ \E n \in Names, w \in Wants : RequestFound(c, n, w)
           \/ DoAddPublisherRefused(c) \/ PathGone(c)
    PROVE  IInv'
<1> USE DEF IInv
<1>1. UNCHANGED <<managerVars, path, couriers, hls>>
  BY DEF RequestFound, DoAddPublisherRefused, PathGone
<1>2. ClientsRefer'
  <2>1. CASE DoAddPublisherRefused(c) \/ PathGone(c)
    BY <2>1 DEF ManagerInv, ClientsRefer, DoAddPublisherRefused, PathGone, Idle, Wants
  <2>2. ASSUME NEW n \in Names, NEW w \in Wants, RequestFound(c, n, w) PROVE ClientsRefer'
    BY <2>2, Entries DEF ManagerInv, ClientsRefer, RequestFound, Asked, Present, PathData
  <2> QED BY <2>1, <2>2
<1>3. TypeOK' /\ ManagerInv' /\ PathInv'
  BY <1>1, <1>2 DEF TypeOK, ManagerInv, PathInv, Present, Missing, managerVars, ClientsRefer
<1>4. ConfInv'
  BY <1>1 DEF ConfInv, Present, Missing, Fits, InForce, managerVars
<1>5. (~ctxDone => View)'
  BY <1>1 DEF View, InMap, NotInMap, Present, Missing, Current, BeingTold, WaitedFor, managerVars
<1> QED BY <1>3, <1>4, <1>5

-----------------------------------------------------------------------------
(* A path tells the manager, which has it in its map.                      *)

(* Whoever is in the map is there under its own name, and once.            *)
LEMMA OwnEntry ==
    ASSUME TypeOK, View, NEW p \in Paths, path[p] # Ended, NEW n \in Names, paths[n].path = p
    PROVE  n = path[p].name /\ n \in Present /\ IsCurrent(p) /\ InMap(n)
  BY Entries DEF View, InMap, IsCurrent

LEMMA FlagStep ==
    ASSUME IInv, NEW p \in Paths, NEW ready \in BOOLEAN, manager.at = "serving",
           path[p] \in PathGoroutine, IsCurrent(p), SetReadyFlag(p, ready),
           path' \in [Paths -> PathGoroutine \cup {Ended}], path'[p] \in PathGoroutine,
           \A q \in Paths \ {p} : path'[q] = path[q],
           path'[p].name = path[p].name, path'[p].conf = path[p].conf, Sane(path'[p]),
           InMap(path[p].name) =>
               /\ ~path'[p].ctxDone /\ path'[p].phase \in {"running", "closePath"}
               /\ path'[p].stream = ready,
           UNCHANGED <<ctxDone, pathConfs, hlsServer, couriers, clients, hls>>
    PROVE  IInv'
<1> DEFINE n == path[p].name
<1> USE Goroutines, Entries DEF IInv
<1>1. n \in Names /\ n \in Present /\ paths[n].path = p /\ paths[n] \in PathData
  BY DEF IsCurrent, PathGoroutine
<1>2. paths' = [paths EXCEPT ![n].ready = ready] /\ paths'[n] \in PathData
      /\ paths \in [Names -> PathData \cup {NoData}]
  BY <1>1 DEF SetReadyFlag, TypeOK, PathData
<1>3. /\ Present' = Present
      /\ \A m \in Names : paths'[m].path = paths[m].path /\ paths'[m].confName = paths[m].confName
      /\ \A m \in Names \ {n} : paths'[m] = paths[m]
      /\ paths'[n].ready = ready
      /\ \A m \in Names : paths'[m] = NoData <=> paths[m] = NoData
  <2>1. NoData \notin PathData
    BY IdentitiesAssumption DEF NoData, PathData
  <2> QED BY <1>1, <1>2, <2>1 DEF Present, Missing, PathData
<1>4. /\ \A q \in Paths : path'[q] # Ended <=> path[q] # Ended
      /\ \A q \in Paths : path[q] # Ended =>
             path'[q].name = path[q].name /\ path'[q].conf = path[q].conf
  OBVIOUS
<1>5. /\ manager.todo = {} /\ manager'.todo = {} /\ manager'.at \in {"serving", "hls"}
      /\ manager'.new \in {manager.new, pathConfs}
      /\ manager' = [at |-> manager'.at, new |-> manager'.new, todo |-> manager'.todo,
                     path |-> manager'.path, ready |-> manager'.ready]
      /\ manager'.path \in Paths \cup {Nobody} /\ manager'.ready \in BOOLEAN
      /\ manager'.at = "hls" => manager'.path = p /\ manager'.ready = ready
      /\ hlsServer => manager'.at = "hls"
  BY ZenonT(40) DEF SetReadyFlag, At, TypeOK, ManagerInv
<1>6. TypeOK' /\ ManagerInv'
  <2>1. ConfsFit(manager.new) /\ ConfsFit(pathConfs)
    BY DEF TypeOK
  <2>2. ConfsFit(manager'.new)
    BY <2>1, <1>5
  <2>3. paths' \in [Names -> PathData \cup {NoData}]
    BY <1>1, <1>2
  <2>4. TypeOK'
    BY <1>5, <2>2, <2>3 DEF TypeOK
  <2> QED BY <1>5, <2>4 DEF ManagerInv, ClientsRefer
<1>7. PathInv'
  BY <1>3, <1>4 DEF PathInv, Present, PathData
<1>8. ConfInv'
  <2>1. \A m \in Present : Fits(pathConfs, m)
    BY <1>5 DEF ConfInv, InForce
  <2>2. \A m \in Present : Fits(InForce(m), m)'
    BY <2>1, <1>3, <1>4, <1>5 DEF Fits, InForce, Present, PathData
  <2>3. \A k \in couriers' : path'[k.path] # Ended => k.conf.kind = path'[k.path].conf.kind
    BY <1>4 DEF ConfInv, TypeOK
  <2> QED BY <1>3, <2>2, <2>3 DEF ConfInv, Missing
<1>9. ASSUME ~ctxDone PROVE View'
  <2> USE <1>9
  <2>1. InMap(n)'
    BY <1>1, <1>3 DEF View, InMap
  <2>2. ASSUME NEW m \in Present, m # n PROVE InMap(m)' /\ paths[m].path # p
    <3>1. m \in Names /\ paths[m].path \in Paths /\ InMap(m)
      BY DEF View, Present, PathData
    <3>2. paths[m].path # p
      BY <2>2, <3>1 DEF InMap
    <3> QED BY SMTT(30), <1>3, <2>2, <3>1, <3>2 DEF InMap
  <2>3. \A q \in Paths : Current(q)' = Current(q)
    BY <1>3 DEF Current
  <2>4. ASSUME NEW q \in Paths PROVE (Current(q) \/ NotInMap(q))'
    BY <1>1, <1>3, <1>5, <2>3 DEF View, NotInMap, WaitedFor, Current
  <2>5. hls.told \subseteq Paths
    BY DEF TypeOK
  <2>6. (manager.at = "hls" => Current(manager.path))'
    BY <1>1, <1>3, <1>5 DEF Current
  <2>7. (\A m \in Present : BeingTold(m) => paths[m].ready = manager.ready)'
    BY <1>1, <1>3, <1>5, <2>2 DEF BeingTold, Present
  <2>8. (hls.at = "serving" =>
             \A m \in Present : BeingTold(m) \/ paths[m].ready = (paths[m].path \in hls.told))'
    BY <1>1, <1>3, <1>5, <2>2 DEF View, BeingTold, ManagerInv, Present
  <2> QED BY <1>3, <1>4, <1>5, <2>1, <2>2, <2>4, <2>5, <2>6, <2>7, <2>8 DEF View
<1> QED BY <1>6, <1>7, <1>8, <1>9

LEMMA ReadyStep ==
    ASSUME NEW p \in Paths, IInv, DoPathReady(p) \/ DoPathNotReady(p)
    PROVE  IInv'
<1> DEFINE pa == path[p]  pb == path'[p]
<1>1. path \in [Paths -> PathGoroutine \cup {Ended}]
  BY DEF IInv, TypeOK
<1>2. pa \in PathGoroutine /\ Sane(pa)
  BY <1>1, Goroutines DEF IInv, PathInv, DoPathReady, DoPathNotReady
<1>3. /\ path' \in [Paths -> PathGoroutine \cup {Ended}] /\ pb \in PathGoroutine
      /\ \A q \in Paths \ {p} : path'[q] = path[q]
      /\ pb.name = pa.name /\ pb.conf = pa.conf /\ pb.ctxDone = pa.ctxDone /\ Sane(pb)
  <2> USE <1>1, <1>2 DEF Sane, PathGoroutine, Live, HasStaticSource
  <2>1. CASE DoPathReady(p)
    BY <2>1 DEF DoPathReady
  <2>2. CASE DoPathNotReady(p)
    BY <2>2, IdentitiesAssumption DEF DoPathNotReady, StreamClosed, Continue, ShouldClose
  <2> QED BY <2>1, <2>2
<1>4. CASE IsCurrent(p)
  <2>1. CASE DoPathReady(p)
    <3>1. pb.phase = "running" /\ pb.stream
      BY <1>1, <1>2, <2>1 DEF DoPathReady, Sane, PathGoroutine
    <3> QED BY <1>2, <1>3, <1>4, <2>1, <3>1, FlagStep DEF DoPathReady, InMap, IsCurrent
  <2>2. CASE DoPathNotReady(p)
    <3>1. pa.phase = "tellNotReady" => pb.phase \in {"running", "closePath"} /\ ~pb.stream
      BY <1>1, <1>2, <2>2 DEF DoPathNotReady, StreamClosed, Continue, PathGoroutine
    <3>2. InMap(pa.name) => pa.phase = "tellNotReady" /\ ~pa.ctxDone
      BY <1>4, <2>2 DEF DoPathNotReady, InMap, IsCurrent
    <3>3. pb.stream \in BOOLEAN
      BY <1>3 DEF PathGoroutine
    <3> QED BY <1>2, <1>3, <1>4, <2>2, <3>1, <3>2, <3>3, FlagStep DEF DoPathNotReady
  <2> QED BY <2>1, <2>2
<1>5. CASE ~IsCurrent(p)
  <2>1. OnePath(p) /\ clients' = clients
    BY <1>2, <1>3, <1>5 DEF OnePath, DoPathReady, DoPathNotReady, SetReadyFlag, managerVars
  <2>2. ASSUME ~ctxDone PROVE pa.ctxDone
    BY <1>2, <1>5, <2>2, Goroutines, OwnEntry DEF IInv, View, NotInMap, Current
  <2>3. pa.ctxDone => StillNotInMap(p)
    BY <1>3 DEF StillNotInMap, DoPathReady, DoPathNotReady
  <2>4. ClientsRefer'
    BY <2>1 DEF IInv, ManagerInv, ClientsRefer
  <2> QED BY <1>3, <2>1, <2>2, <2>3, <2>4, OnePathStep
<1> QED BY <1>4, <1>5

(* The map forgets n; the context of its path is done.                     *)
LEMMA RemoveStep ==
    ASSUME IInv, NEW n \in Present, paths' = RemovePath(n)
    PROVE  /\ paths' \in [Names -> PathData \cup {NoData}] /\ Present' = Present \ {n}
           /\ \A m \in Names \ {n} : paths'[m] = paths[m]
           /\ paths'[n] = NoData
           /\ \A m \in Present' : m \in Present /\ m # n /\ paths'[m] = paths[m]
                                  /\ paths[m].path \in Paths
  BY Entries DEF IInv, TypeOK, RemovePath, Present, Missing, PathData

LEMMA CloseStep ==
    ASSUME NEW p \in Paths, IInv, DoClosePath(p)
    PROVE  IInv'
<1> DEFINE pa == path[p]  pb == path'[p]
<1> USE Goroutines DEF DoClosePath, managerVars
<1>1. path \in [Paths -> PathGoroutine \cup {Ended}]
  BY DEF IInv, TypeOK
<1>2. pa \in PathGoroutine /\ Sane(pa)
  BY <1>1 DEF IInv, PathInv
<1>3. /\ path' \in [Paths -> PathGoroutine \cup {Ended}] /\ pb \in PathGoroutine
      /\ \A q \in Paths \ {p} : path'[q] = path[q]
      /\ pb.name = pa.name /\ pb.conf = pa.conf /\ pb.source = pa.source /\ pb.stream = pa.stream
      /\ pb.ctxDone /\ pb.phase = "ending"
  BY <1>1, <1>2 DEF PathClosed, PathGoroutine, Live
<1>4. Sane(pb) /\ ClientsRefer'
  BY <1>2, <1>3 DEF Sane, IInv, ManagerInv, ClientsRefer
<1>5. CASE ~IsCurrent(p)
  <2>1. OnePath(p)
    BY <1>2, <1>3, <1>5 DEF OnePath
  <2>2. ASSUME ~ctxDone PROVE pa.ctxDone
    BY <1>2, <1>5, <2>2, OwnEntry DEF IInv, View, NotInMap, Current
  <2>3. StillNotInMap(p)
    BY <1>3 DEF StillNotInMap
  <2> QED BY <1>4, <2>1, <2>2, <2>3, OnePathStep
<1>6. CASE IsCurrent(p)
  <2> DEFINE n == pa.name
  <2> USE <1>6 DEF IInv
  <2>1. n \in Present /\ paths[n].path = p /\ paths' = RemovePath(n)
    BY <1>2, Entries DEF IsCurrent, PathGoroutine
  <2>2. /\ paths' \in [Names -> PathData \cup {NoData}] /\ Present' = Present \ {n}
        /\ \A m \in Names \ {n} : paths'[m] = paths[m]
        /\ paths'[n] = NoData
        /\ \A m \in Present' : m \in Present /\ m # n /\ paths'[m] = paths[m]
                               /\ paths[m].path \in Paths
    BY <2>1, RemoveStep
  <2>3. manager.todo = {} /\ manager' = manager /\ manager.at = "serving"
    BY DEF ManagerInv
  <2>4. TypeOK' /\ ManagerInv'
    BY <1>3, <1>4, <2>2, <2>3 DEF TypeOK, ManagerInv
  <2>5. PathInv'
    BY <1>3, <1>4, <2>2 DEF PathInv
  <2>6. \A m \in Present' : Fits(InForce(m), m)'
    BY <1>2, <1>3, <2>2, <2>3 DEF ConfInv, Fits, InForce
  <2>7. \A k \in couriers' : path'[k.path] # Ended => k.conf.kind = path'[k.path].conf.kind
    BY <1>2, <1>3 DEF ConfInv, TypeOK
  <2>8. ASSUME ~ctxDone, NEW m \in Names \cap DOMAIN pathConfs, HasStaticSource(pathConfs[m])
        PROVE  ~Missing(m)'
    <3>1. InMap(n) /\ pa.source = Nobody
      BY <1>2, <2>1, <2>8 DEF View, InMap, Sane
    <3>2. ~HasStaticSource(pa.conf)
      BY <1>2, <3>1, IdentitiesAssumption DEF Sane
    <3>3. m # n
      BY <1>2, <2>1, <2>3, <2>8, <3>2 DEF ConfInv, Fits, InForce, FindPathConf, HasStaticSource
    <3> QED BY <2>2, <2>3, <2>8, <3>3 DEF ConfInv, Missing
  <2>9. ASSUME ~ctxDone PROVE View'
    <3> USE <2>9 DEF View
    <3>1. pa.source = Nobody
      BY <1>2, <2>1 DEF InMap, Sane
    <3>2. \A m \in Present' : InMap(m)'
      BY SMTT(30), <1>3, <2>1, <2>2 DEF InMap
    <3>3. ASSUME NEW q \in Paths PROVE (Current(q) \/ NotInMap(q))'
      BY <1>3, <2>1, <2>2, <2>3, <3>1 DEF Current, NotInMap, WaitedFor
    <3>4. hls.told \subseteq Paths
      BY DEF TypeOK
    <3> QED BY <1>2, <1>3, <2>2, <2>3, <3>2, <3>3, <3>4 DEF BeingTold
  <2> QED BY <2>3, <2>4, <2>5, <2>6, <2>7, <2>8, <2>9 DEF ConfInv
<1> QED BY <1>5, <1>6

-----------------------------------------------------------------------------
(* A path is created.                                                      *)

LEMMA ConfFound ==
    ASSUME NEW confs, ConfsFit(confs), NEW n \in Names, Configured(confs, n)
    PROVE  /\ FindPathConf(confs, n) \in Conf
           /\ FindPathConf(confs, n).name \in DOMAIN confs
           /\ confs[FindPathConf(confs, n).name] = FindPathConf(confs, n)
  BY DEF ConfsFit, Configured, FindPathConf

LEMMA CreateStep ==
    ASSUME IInv, NEW p \in Paths, NEW n \in Names, Missing(n), Configured(pathConfs, n),
           manager.at \in {"serving", "create"}, CreatePath(p, n, FindPathConf(pathConfs, n)),
           UNCHANGED <<manager, ctxDone, pathConfs, hlsServer, couriers, hls>>, ClientsRefer'
    PROVE  IInv'
<1> DEFINE c == FindPathConf(pathConfs, n)
<1> USE Goroutines, Entries DEF IInv
<1>1. c \in Conf
  BY ConfFound DEF TypeOK
<1>2. /\ path[p] = Ended /\ ~Current(p)
      /\ \A k \in couriers : k.path # p
      /\ path \in [Paths -> PathGoroutine \cup {Ended}]
      /\ paths \in [Names -> PathData \cup {NoData}]
  BY DEF CreatePath, Fresh, TypeOK
<1>3. /\ path'[p] = [phase |-> "running", name |-> n, ctxDone |-> ctxDone, conf |-> c,
                     source |-> IF HasStaticSource(c) THEN Handler ELSE Nobody, stream |-> FALSE]
      /\ paths'[n] = [path |-> p, ready |-> FALSE, confName |-> c.name]
      /\ \A m \in Names \ {n} : paths'[m] = paths[m]
      /\ \A q \in Paths \ {p} : path'[q] = path[q]
  BY <1>2 DEF CreatePath
<1>4. path'[p] \in PathGoroutine /\ paths'[n] \in PathData
  BY <1>1, <1>3 DEF PathGoroutine, PathData, Live, TypeOK, Conf
<1>5. /\ path' \in [Paths -> PathGoroutine \cup {Ended}]
      /\ paths' \in [Names -> PathData \cup {NoData}]
  BY <1>2, <1>4 DEF CreatePath
<1>6. NoData \notin PathData
  BY IdentitiesAssumption DEF NoData, PathData
<1>7. /\ n \notin Present /\ Present' = Present \cup {n}
      /\ \A m \in Present : m # n /\ paths'[m] = paths[m]
                            /\ paths[m].path \in Paths /\ paths[m].path # p
  BY <1>2, <1>3, <1>4, <1>6 DEF Present, Missing, Current, PathData
<1>8. manager.todo = {} /\ manager' = manager
  BY DEF ManagerInv
<1>9. TypeOK' /\ ManagerInv'
  BY <1>5, <1>8 DEF TypeOK, ManagerInv, ClientsRefer
<1>10. Sane(path'[p])
  BY <1>3, IdentitiesAssumption DEF Sane, HasStaticSource
<1>11. PathInv'
  BY <1>3, <1>7, <1>10 DEF PathInv
<1>12. ConfInv'
  <2>1. Fits(InForce(n), n)'
    BY <1>3, <1>8 DEF Fits, InForce, Configured, FindPathConf
  <2>2. ASSUME NEW m \in Present PROVE Fits(InForce(m), m)'
    BY <1>3, <1>7, <1>8 DEF ConfInv, Fits, InForce
  <2>3. \A k \in couriers' : path'[k.path] # Ended => k.conf.kind = path'[k.path].conf.kind
    BY <1>2, <1>3 DEF ConfInv, TypeOK
  <2>4. \A m \in Names : Missing(m)' => Missing(m)
    BY <1>3, <1>4, <1>6 DEF Missing
  <2> QED BY <1>7, <2>1, <2>2, <2>3, <2>4 DEF ConfInv
<1>13. ASSUME ~ctxDone PROVE View'
  <2> USE <1>13 DEF View
  <2>1. p \notin hls.told
    BY <1>2
  <2>2. InMap(n)'
    <3>1. paths'[n].path = p /\ paths'[n].ready = FALSE
      BY <1>3
    <3>2. /\ path'[p].name = n /\ path'[p].ctxDone = FALSE /\ path'[p].phase = "running"
          /\ path'[p].stream = FALSE
      BY <1>3
    <3> QED BY <3>1, <3>2 DEF InMap
  <2>3. ASSUME NEW m \in Present PROVE InMap(m)'
    BY <1>3, <1>7 DEF InMap
  <2>4. ASSUME NEW q \in Paths PROVE (Current(q) \/ NotInMap(q))'
    <3>1. CASE q = p
      BY <1>3, <3>1 DEF Current
    <3>2. CASE q # p
      BY <1>3, <1>7, <3>2 DEF Current, NotInMap, WaitedFor
    <3> QED BY <3>1, <3>2
  <2>5. hls.told \subseteq Paths
    BY DEF TypeOK
  <2>6. ASSUME NEW m \in Present', hls.at = "serving"
        PROVE  paths'[m].ready = (paths'[m].path \in hls'.told)
    <3>1. CASE m = n
      <4>1. paths'[m].path = p /\ paths'[m].ready = FALSE
        BY <1>3, <3>1
      <4>2. (p \in hls'.told) = FALSE
        BY <2>1
      <4> QED BY <4>1, <4>2
    <3>2. CASE m # n
      BY <1>7, <2>6, <3>2 DEF BeingTold
    <3> QED BY <3>1, <3>2
  <2>7. \A q \in hls'.told : path'[q] # Ended
    BY <1>3, <2>1, <2>5
  <2>8. (manager.at \notin {"wait", "hls"})'
    BY <1>8
  <2> QED BY <1>7, <2>2, <2>3, <2>4, <2>6, <2>7, <2>8 DEF BeingTold
<1> QED BY <1>9, <1>11, <1>12, <1>13

-----------------------------------------------------------------------------
(* The manager moves on, in a reload, or past a path or an HLS server that *)
(* has come to its end.                                                    *)

LEMMA MoveStep ==
    ASSUME IInv,
           UNCHANGED <<ctxDone, paths, hlsServer, path, couriers, clients, hls>>,
           manager' = [at |-> manager'.at, new |-> manager'.new, todo |-> manager'.todo,
                       path |-> manager'.path, ready |-> manager'.ready],
           manager'.at \in {"serving", "reload", "create", "ended"},
           manager'.at # "reload" => manager'.todo = {},
           manager'.todo \subseteq Present,
           manager'.path \in Paths \cup {Nobody}, manager'.ready \in BOOLEAN,
           ConfsFit(manager.new)', ConfsFit(pathConfs)',
           \A n \in Present : Fits(InForce(n), n)',
           ~ctxDone => (manager.at = "serving" =>
               \A n \in Names \cap DOMAIN pathConfs : HasStaticSource(pathConfs[n]) => ~Missing(n))',
           manager.at = "wait" => path[manager.path] = Ended,
           manager.at = "hls" => hls.at # "serving"
    PROVE  IInv'
<1> USE DEF IInv
<1>1. Present' = Present
  BY DEF Present, Missing
<1>2. TypeOK' /\ ManagerInv' /\ PathInv'
  <2>1. TypeOK'
    BY DEF TypeOK, ManagerInv, Present
  <2>2. ManagerInv'
    BY <1>1 DEF ManagerInv, ClientsRefer
  <2>3. PathInv'
    BY <1>1 DEF PathInv
  <2> QED BY <2>1, <2>2, <2>3
<1>3. ConfInv'
  BY <1>1 DEF ConfInv, Missing
<1>4. ASSUME ~ctxDone PROVE View'
  <2> USE <1>4 DEF View
  <2>1. \A n \in Present : InMap(n)'
    BY DEF InMap
  <2>2. \A p \in Paths : (Current(p) \/ NotInMap(p))'
    BY Goroutines DEF Current, NotInMap, WaitedFor
  <2> QED BY <1>1, <2>1, <2>2 DEF BeingTold
<1> QED BY <1>2, <1>3, <1>4

LEMMA ReloadStarts ==
    ASSUME IInv, NEW new \in Configurations, ReloadPathConfs(new) PROVE IInv'
<1>1. ConfsFit(new) /\ ConfsFit(pathConfs)
  BY ConfigurationsAssumption DEF ConfsFit, IInv, TypeOK
<1>2. manager' = [at |-> "reload", new |-> new, todo |-> Present, path |-> Nobody, ready |-> FALSE]
  BY DEF ReloadPathConfs, At
<1>3. \A n \in Present : Fits(InForce(n), n)'
  BY <1>2 DEF ReloadPathConfs, IInv, ConfInv, Fits, InForce
<1>4. /\ manager'.ready \in BOOLEAN
      /\ manager' = [at |-> manager'.at, new |-> manager'.new, todo |-> manager'.todo,
                     path |-> manager'.path, ready |-> manager'.ready]
  BY <1>2
<1> QED BY <1>1, <1>2, <1>3, <1>4, MoveStep DEF ReloadPathConfs

(* The section a path found last is the one its name finds.                *)
LEMMA OldIsFound ==
    ASSUME IInv, NEW n \in Names, Reloading(n)
    PROVE  /\ n \in Present /\ paths[n].path \in Paths
           /\ OldConf(n) = FindPathConf(pathConfs, n)
           /\ Fits(pathConfs, n)
           /\ Configured(manager.new, n) => NewConf(n) \in Conf
<1>1. n \in Present /\ paths[n].path \in Paths /\ Fits(pathConfs, n)
  BY Entries DEF IInv, ManagerInv, Reloading, ConfInv, InForce, PathData
<1>2. OldConf(n) = FindPathConf(pathConfs, n)
  BY <1>1, ConfFound DEF IInv, TypeOK, OldConf, Fits
<1> QED BY <1>1, <1>2, ConfFound DEF NewConf, IInv, TypeOK

LEMMA ReloadKeepsStep ==
    ASSUME IInv, NEW n \in Names, ReloadKeeps(n) PROVE IInv'
<1> USE DEF ReloadKeeps, IInv
<1>1. Reloading(n) /\ n \in Present /\ Fits(pathConfs, n) /\ OldConf(n) = FindPathConf(pathConfs, n)
  BY OldIsFound
<1>2. manager' = [at |-> "reload", new |-> manager.new, todo |-> manager.todo \ {n},
                  path |-> manager.path, ready |-> manager.ready]
  BY <1>1 DEF Reloading, Done, ManagerInv
<1>3. Fits(manager.new, n)
  BY <1>1 DEF MustGo, NewConf, Fits
<1>4. \A m \in Present : Fits(InForce(m), m)'
  BY <1>1, <1>2, <1>3 DEF ConfInv, Fits, InForce, Reloading
<1>5. ConfsFit(manager.new)' /\ ConfsFit(pathConfs)'
  BY <1>2 DEF TypeOK
<1>6. manager.todo \subseteq Present /\ manager.path \in Paths \cup {Nobody}
      /\ manager.ready \in BOOLEAN
  BY DEF TypeOK, ManagerInv
<1> QED BY <1>1, <1>2, <1>4, <1>5, <1>6, MoveStep DEF Reloading

LEMMA MovesOn ==
    ASSUME IInv, PathWaited \/ PathsReloaded \/ StaticPathsCreated \/ HLSSkipped \/ RunTerminated
    PROVE  IInv'
<1> USE DEF IInv
<1>1. /\ manager = [at |-> manager.at, new |-> manager.new, todo |-> manager.todo,
                    path |-> manager.path, ready |-> manager.ready]
      /\ manager.todo \subseteq Present /\ manager.path \in Paths \cup {Nobody}
      /\ manager.ready \in BOOLEAN /\ ConfsFit(manager.new) /\ ConfsFit(pathConfs)
      /\ \A n \in Present : Fits(InForce(n), n)
      /\ manager.at \notin {"reload", "wait"} => manager.todo = {}
  BY DEF TypeOK, ManagerInv, ConfInv
<1>2. CASE PathWaited
  <2>1. manager' = [at |-> "reload", new |-> manager.new, todo |-> manager.todo,
                    path |-> Nobody, ready |-> manager.ready]
    BY <1>1, <1>2 DEF PathWaited
  <2>2. \A n \in Present : Fits(InForce(n), n)'
    BY <1>1, <1>2, <2>1 DEF PathWaited, Fits, InForce
  <2> QED BY <1>1, <1>2, <2>1, <2>2, MoveStep DEF PathWaited
<1>3. CASE PathsReloaded
  <2>1. manager' = [at |-> "create", new |-> manager.new, todo |-> {},
                    path |-> manager.path, ready |-> manager.ready]
    BY <1>1, <1>3 DEF PathsReloaded
  <2>2. \A n \in Present : Fits(InForce(n), n)'
    BY <1>1, <1>3, <2>1 DEF PathsReloaded, Fits, InForce
  <2> QED BY <1>1, <1>3, <2>1, <2>2, MoveStep DEF PathsReloaded
<1>4. CASE StaticPathsCreated
  <2>1. manager' = [at |-> "serving", new |-> pathConfs, todo |-> {}, path |-> Nobody,
                    ready |-> FALSE]
    BY <1>4 DEF StaticPathsCreated, At
  <2>2. /\ manager'.ready \in BOOLEAN
        /\ manager' = [at |-> manager'.at, new |-> manager'.new, todo |-> manager'.todo,
                       path |-> manager'.path, ready |-> manager'.ready]
    BY <2>1
  <2>3. \A n \in Present : Fits(InForce(n), n)'
    BY <1>1, <1>4, <2>1 DEF StaticPathsCreated, Fits, InForce
  <2>4. \A n \in Names \cap DOMAIN pathConfs : ~Missing(n)
    BY <1>4 DEF StaticPathsCreated, ToCreate
  <2> QED BY <1>1, <1>4, <2>1, <2>2, <2>3, <2>4, MoveStep DEF StaticPathsCreated, Missing
<1>5. CASE HLSSkipped
  <2>1. manager' = [at |-> "serving", new |-> pathConfs, todo |-> {}, path |-> Nobody,
                    ready |-> FALSE]
    BY <1>5 DEF HLSSkipped, At
  <2>2. /\ manager'.ready \in BOOLEAN
        /\ manager' = [at |-> manager'.at, new |-> manager'.new, todo |-> manager'.todo,
                       path |-> manager'.path, ready |-> manager'.ready]
    BY <2>1
  <2>3. \A n \in Present : Fits(InForce(n), n)'
    BY <1>1, <1>5, <2>1 DEF HLSSkipped, Fits, InForce
  <2> QED BY <1>1, <1>5, <2>1, <2>2, <2>3, MoveStep DEF HLSSkipped, Missing, ConfInv
<1>6. CASE RunTerminated
  <2>1. manager' = [at |-> "ended", new |-> pathConfs, todo |-> {}, path |-> Nobody,
                    ready |-> FALSE]
    BY <1>6 DEF RunTerminated, At
  <2>2. /\ manager'.ready \in BOOLEAN
        /\ manager' = [at |-> manager'.at, new |-> manager'.new, todo |-> manager'.todo,
                       path |-> manager'.path, ready |-> manager'.ready]
    BY <2>1
  <2>3. \A n \in Present : Fits(InForce(n), n)'
    BY <1>1, <1>6, <2>1 DEF RunTerminated, Fits, InForce
  <2> QED BY <1>1, <1>6, <2>1, <2>2, <2>3, MoveStep DEF RunTerminated
<1> QED BY <1>2, <1>3, <1>4, <1>5, <1>6

LEMMA ReloadUpdatesStep ==
    ASSUME IInv, NEW n \in Names, ReloadUpdates(n) PROVE IInv'
<1> DEFINE k == [path |-> paths[n].path, conf |-> NewConf(n)]
<1> USE Goroutines, Entries DEF ReloadUpdates, IInv
<1>1. /\ Reloading(n) /\ n \in Present /\ paths[n].path \in Paths
      /\ Fits(pathConfs, n) /\ OldConf(n) = FindPathConf(pathConfs, n)
      /\ NewConf(n) \in Conf /\ Configured(manager.new, n)
      /\ NewConf(n).kind = OldConf(n).kind
  <2>1. Configured(manager.new, n) /\ CanBeUpdated(OldConf(n), NewConf(n))
    BY DEF MustGo
  <2>2. OldConf(n) \in Conf /\ NewConf(n) \in Conf
    BY <2>1, OldIsFound, ConfFound DEF TypeOK, Fits
  <2>3. NewConf(n).kind = OldConf(n).kind
    BY <2>1, <2>2 DEF CanBeUpdated, Conf
  <2> QED BY <2>1, <2>2, <2>3, OldIsFound
<1>2. manager' = [at |-> "reload", new |-> manager.new, todo |-> manager.todo \ {n},
                  path |-> manager.path, ready |-> manager.ready]
  BY <1>1 DEF Reloading, Done, ManagerInv
<1>3. /\ paths' = [paths EXCEPT ![n] = Renamed(n)]
      /\ Renamed(n) = [path |-> paths[n].path, ready |-> paths[n].ready,
                       confName |-> NewConf(n).name]
      /\ Renamed(n) \in PathData
  BY <1>1 DEF Renamed, PathData, Conf
<1>4. /\ paths' \in [Names -> PathData \cup {NoData}] /\ Present' = Present
      /\ \A m \in Names : paths'[m].path = paths[m].path /\ paths'[m].ready = paths[m].ready
      /\ \A m \in Names \ {n} : paths'[m] = paths[m]
      /\ paths'[n].confName = NewConf(n).name
      /\ \A m \in Names : Missing(m)' <=> Missing(m)
  <2>1. NoData \notin PathData
    BY IdentitiesAssumption DEF NoData, PathData
  <2>2. paths \in [Names -> PathData \cup {NoData}]
    BY DEF TypeOK
  <2> QED BY <1>1, <1>3, <2>1, <2>2 DEF Present, Missing
<1>5. couriers' = couriers \cup {k} /\ k \in [path: Paths, conf: Conf]
  BY <1>1
<1>6. TypeOK'
  <2>1. couriers' \subseteq [path: Paths, conf: Conf]
    BY <1>5 DEF TypeOK
  <2>2. manager'.todo \subseteq Names
    BY <1>2 DEF TypeOK
  <2> QED BY <1>2, <1>4, <2>1, <2>2 DEF TypeOK
<1>7. ManagerInv'
  BY <1>2, <1>4 DEF ManagerInv, ClientsRefer
<1>8. PathInv'
  BY <1>4 DEF PathInv, Present
<1>9. ConfInv'
  <2>1. \A m \in Present : m # n => Fits(InForce(m), m)'
    BY <1>1, <1>2, <1>4 DEF ConfInv, Fits, InForce, Reloading, Present
  <2>2. Fits(InForce(n), n)'
    BY <1>1, <1>2, <1>4 DEF Fits, InForce, NewConf
  <2>3. path[paths[n].path] # Ended => k.conf.kind = path[k.path].conf.kind
    BY <1>1 DEF Fits
  <2> QED BY <1>2, <1>4, <1>5, <2>1, <2>2, <2>3 DEF ConfInv
<1>10. ASSUME ~ctxDone PROVE View'
  <2> USE <1>10 DEF View
  <2>1. \A m \in Present : InMap(m)'
    BY <1>4 DEF InMap, Present
  <2>2. \A p \in Paths : (Current(p) \/ NotInMap(p))'
    BY <1>1, <1>2, <1>4 DEF Current, NotInMap, WaitedFor, Reloading
  <2>3. ASSUME NEW m \in Present, hls.at = "serving"
        PROVE  (paths[m].ready = (paths[m].path \in hls.told))'
    BY <1>1, <1>4, <2>3 DEF BeingTold, Reloading, Present
  <2> QED BY <1>2, <1>4, <2>1, <2>2, <2>3 DEF BeingTold
<1> QED BY <1>6, <1>7, <1>8, <1>9, <1>10

LEMMA ReloadRemovesStep ==
    ASSUME IInv, NEW n \in Names, ReloadRemoves(n) PROVE IInv'
<1> USE Goroutines, Entries DEF ReloadRemoves, IInv
<1> PICK p \in Paths : p = paths[n].path
  BY OldIsFound
<1> DEFINE pa == path[p]  pb == path'[p]
<1>1. Reloading(n) /\ n \in Present /\ p = paths[n].path
  BY OldIsFound
<1>2. manager' = [at |-> "wait", new |-> manager.new, todo |-> manager.todo \ {n},
                  path |-> p, ready |-> manager.ready]
  BY <1>1 DEF Waiting, Done, ManagerInv
<1>3. /\ paths' \in [Names -> PathData \cup {NoData}] /\ Present' = Present \ {n}
      /\ \A m \in Names \ {n} : paths'[m] = paths[m]
      /\ paths'[n] = NoData
      /\ \A m \in Present' : m \in Present /\ m # n /\ paths'[m] = paths[m]
                             /\ paths[m].path \in Paths
  BY <1>1, RemoveStep
<1>4. /\ path' \in [Paths -> PathGoroutine \cup {Ended}]
      /\ \A q \in Paths \ {p} : path'[q] = path[q]
      /\ pa = Ended => pb = Ended
      /\ pa # Ended => pb \in PathGoroutine
      /\ pa # Ended => pb.name = pa.name /\ pb.conf = pa.conf /\ pb.source = pa.source
                       /\ pb.stream = pa.stream /\ pb.phase = pa.phase
      /\ pb.ctxDone
  <2>1. path \in [Paths -> PathGoroutine \cup {Ended}]
    BY DEF TypeOK
  <2>2. pb = [pa EXCEPT !.ctxDone = TRUE]
    BY <1>1, <2>1
  <2>3. pa = Ended => pb = Ended
    BY <2>2 DEF Ended
  <2> QED BY <1>1, <2>1, <2>2, <2>3, Cancelled
<1>5. TypeOK'
  BY <1>1, <1>2, <1>3, <1>4 DEF TypeOK
<1>6. ManagerInv'
  BY <1>1, <1>2, <1>3 DEF ManagerInv, ClientsRefer
<1>7. PathInv'
  <2>1. ASSUME pa # Ended PROVE pb # Ended /\ Sane(pb)
    <3>1. pa \in PathGoroutine /\ Sane(pa)
      BY <2>1, TypeOK DEF TypeOK, PathInv
    <3> QED BY <1>4, <2>1, <3>1 DEF Sane
  <2>2. \A q \in Paths : path'[q] # Ended => Sane(path'[q])
    BY <1>4, <2>1 DEF PathInv
  <2>3. \A m \in Present' : path'[paths'[m].path] # Ended => path'[paths'[m].path].name = m
    BY <1>3, <1>4 DEF PathInv
  <2> QED BY <2>2, <2>3 DEF PathInv
<1>8. ConfInv'
  <2>1. \A m \in Present' : Fits(InForce(m), m)'
    BY <1>1, <1>2, <1>3, <1>4 DEF ConfInv, Fits, InForce, Reloading
  <2>2. \A j \in couriers' : path'[j.path] # Ended => j.conf.kind = path'[j.path].conf.kind
    BY <1>4 DEF ConfInv, TypeOK
  <2> QED BY <1>2, <2>1, <2>2 DEF ConfInv
<1>9. ASSUME ~ctxDone PROVE View'
  <2> USE <1>9 DEF View
  <2>1. pa # Ended /\ pa.name = n /\ pb.name = n
    BY <1>1, <1>4 DEF InMap
  <2>2. \A m \in Present' : InMap(m)' /\ paths[m].path # p
    BY <1>1, <1>3, <1>4 DEF InMap
  <2>3. ~Current(p)'
    <3>1. ASSUME NEW m \in Names, m # n PROVE paths[m].path # p
      BY <1>1, <2>1, <3>1, OwnEntry
    <3>2. paths'[n].path # p
      BY <1>3, IdentitiesAssumption DEF NoData
    <3> QED BY <1>3, <3>1, <3>2 DEF Current
  <2>4. ASSUME NEW q \in Paths, q # p PROVE (Current(q) \/ NotInMap(q))'
    BY <1>1, <1>2, <1>3, <1>4, <2>4 DEF Current, NotInMap, WaitedFor, Reloading
  <2>5. NotInMap(p)'
    BY <1>2, <1>3, <1>4, <2>1 DEF NotInMap, WaitedFor, Missing
  <2>6. hls'.told \subseteq Paths /\ \A q \in hls'.told : path'[q] # Ended
    BY <1>1, <1>4 DEF TypeOK
  <2>7. ASSUME NEW m \in Present', hls.at = "serving"
        PROVE  (paths[m].ready = (paths[m].path \in hls.told))'
    BY <1>1, <1>3, <2>7 DEF BeingTold, Reloading
  <2> QED BY <1>2, <2>2, <2>3, <2>4, <2>5, <2>6, <2>7 DEF BeingTold
<1> QED BY <1>5, <1>6, <1>7, <1>8, <1>9

-----------------------------------------------------------------------------
(* A path ends, and takes the HLS muxers of its stream with it.            *)

LEMMA PathEndsStep ==
    ASSUME NEW p \in Paths, IInv, PathEnds(p) PROVE IInv'
<1> USE Goroutines, Entries DEF PathEnds, IInv, managerVars
<1>1. /\ path \in [Paths -> PathGoroutine \cup {Ended}] /\ path[p] \in PathGoroutine
      /\ path' \in [Paths -> PathGoroutine \cup {Ended}] /\ path'[p] = Ended
      /\ \A q \in Paths \ {p} : path'[q] = path[q]
      /\ Sane(path[p])
  BY DEF TypeOK, PathInv
<1>2. hls'.at = hls.at /\ hls'.told = hls.told \ {p} /\ hls.told \subseteq Paths
      /\ hls' \in [at: {"none", "setting", "serving", "closing"}, told: SUBSET Paths]
  BY DEF TypeOK
<1>3. Present' = Present /\ \A m \in Present : paths[m].path \in Paths
  BY DEF Present, Missing, PathData
<1>4. TypeOK' /\ ManagerInv'
  BY <1>1, <1>2, <1>3 DEF TypeOK, ManagerInv, ClientsRefer
<1>5. PathInv'
  BY <1>1, <1>3 DEF PathInv
<1>6. ConfInv'
  <2>1. \A m \in Present : Fits(InForce(m), m)'
    BY <1>1, <1>3 DEF ConfInv, Fits, InForce
  <2>2. \A k \in couriers' : path'[k.path] # Ended => k.conf.kind = path'[k.path].conf.kind
    BY <1>1 DEF ConfInv, TypeOK
  <2> QED BY <1>3, <2>1, <2>2 DEF ConfInv, Missing
<1>7. ASSUME ~ctxDone PROVE View'
  <2> USE <1>7 DEF View
  <2>1. \A m \in Present : InMap(m)' /\ paths[m].path # p
    BY <1>1, <1>3 DEF InMap
  <2>2. ~Current(p)
    BY <2>1 DEF Current
  <2>3. \A q \in Paths : (Current(q) \/ NotInMap(q))'
    BY <1>1, <2>2 DEF Current, NotInMap, WaitedFor, Missing
  <2>4. \A m \in Present : BeingTold(m)' <=> BeingTold(m)
    BY DEF BeingTold
  <2>5. (/\ manager.at = "wait" => ~Current(manager.path)
         /\ manager.at = "hls" => Current(manager.path))'
    BY DEF Current
  <2>6. ASSUME NEW m \in Present, hls'.at = "serving"
        PROVE  BeingTold(m) \/ paths[m].ready = (paths[m].path \in hls'.told)
    BY <1>2, <2>1, <2>6
  <2> QED BY <1>1, <1>2, <1>3, <2>1, <2>3, <2>4, <2>5, <2>6
<1> QED BY <1>4, <1>5, <1>6, <1>7

-----------------------------------------------------------------------------
(* The HLS server, and the end of the manager's context.                   *)

LEMMA HLSStep ==
    ASSUME IInv, HLSStarts \/ DoSetHLSServer \/ HLSTakes \/ HLSCloses \/ DoUnsetHLSServer
                 \/ SetHLSServerSkipped
    PROVE  IInv'
<1> USE Goroutines, Entries DEF IInv, managerVars
<1>1. /\ UNCHANGED <<ctxDone, pathConfs, paths, path, couriers, clients>>
      /\ manager' = manager \/ HLSTakes
      /\ hls'.at = "serving" => hlsServer'
      /\ hlsServer' \in BOOLEAN
  <2> USE DEF ManagerInv, TypeOK
  <2>1. CASE HLSTakes
    BY <2>1 DEF HLSTakes
  <2>2. CASE DoSetHLSServer \/ DoUnsetHLSServer
    BY <2>2 DEF DoSetHLSServer, DoUnsetHLSServer
  <2>3. CASE HLSStarts \/ HLSCloses \/ SetHLSServerSkipped
    BY <2>3 DEF HLSStarts, HLSCloses, SetHLSServerSkipped
  <2> QED BY <2>1, <2>2, <2>3
<1>2. Present' = Present /\ \A m \in Present : paths[m].path \in Paths
  BY <1>1 DEF Present, Missing, PathData
<1>3. hls' \in [at: {"none", "setting", "serving", "closing"}, told: SUBSET Paths]
  <2>1. CASE HLSTakes
    BY <2>1 DEF HLSTakes, TypeOK, ManagerInv
  <2>2. CASE DoSetHLSServer
    <3>1. ReadyPaths \subseteq Paths
      BY DEF ReadyPaths, Present, Missing, NoData, PathData
    <3> QED BY <2>2, <3>1 DEF DoSetHLSServer
  <2>3. CASE HLSStarts \/ HLSCloses \/ DoUnsetHLSServer \/ SetHLSServerSkipped
    BY <2>3 DEF HLSStarts, HLSCloses, DoUnsetHLSServer, SetHLSServerSkipped, TypeOK
  <2> QED BY <2>1, <2>2, <2>3
<1>4. HLSTakes => manager' = [at |-> "serving", new |-> pathConfs, todo |-> {}, path |-> Nobody,
                              ready |-> FALSE]
  BY DEF HLSTakes, At
<1>5. TypeOK' /\ ManagerInv'
  <2>1. CASE manager' = manager
    BY <1>1, <1>2, <1>3, <2>1 DEF TypeOK, ManagerInv, ClientsRefer
  <2>2. CASE HLSTakes
    <3>1. manager' = [at |-> "serving", new |-> pathConfs, todo |-> {}, path |-> Nobody,
                      ready |-> FALSE]
      BY <1>4, <2>2
    <3>2. manager'.ready \in BOOLEAN
          /\ manager' = [at |-> manager'.at, new |-> manager'.new, todo |-> manager'.todo,
                         path |-> manager'.path, ready |-> manager'.ready]
      BY <3>1
    <3>3. ConfsFit(manager.new)' /\ ConfsFit(pathConfs)'
      BY <1>1, <3>1 DEF TypeOK
    <3>4. TypeOK'
      BY <1>1, <1>3, <3>1, <3>2, <3>3 DEF TypeOK
    <3>5. ManagerInv'
      BY <1>1, <1>2, <3>1, <3>2 DEF ManagerInv, ClientsRefer
    <3> QED BY <3>4, <3>5
  <2> QED BY <1>1, <2>1, <2>2
<1>6. PathInv'
  BY <1>1, <1>2 DEF PathInv
<1>7. ConfInv'
  BY <1>1, <1>2, <1>4 DEF ConfInv, Fits, InForce, Missing, HLSTakes
<1>8. ASSUME ~ctxDone PROVE View'
  <2> USE <1>8 DEF View
  <2>1. \A m \in Present : InMap(m)'
    BY <1>1 DEF InMap
  <2>2. \A q \in Paths : Current(q)' <=> Current(q)
    BY <1>1 DEF Current
  <2>3. \A q \in Paths : (Current(q) \/ NotInMap(q))'
    BY <1>1, <1>4, <2>2 DEF NotInMap, WaitedFor, Missing, HLSTakes
  <2>4. (/\ manager.at = "wait" => ~Current(manager.path)
         /\ manager.at = "hls" => Current(manager.path))'
    BY <1>1, <1>4 DEF Current
  <2>5. CASE HLSTakes
    <3>1. manager.path \in Paths /\ path[manager.path] # Ended
      BY <2>5, OwnEntry DEF HLSTakes, ManagerInv, InMap, Current
    <3>2. \A q \in hls'.told : path[q] # Ended
      BY <2>5, <3>1 DEF HLSTakes, TypeOK
    <3>3. ASSUME NEW m \in Present PROVE paths[m].ready = (paths[m].path \in hls'.told)
      <4>1. CASE paths[m].path = manager.path
        <5>1. paths[m].ready = manager.ready
          BY <2>5, <4>1 DEF HLSTakes, BeingTold
        <5>2. (paths[m].path \in hls'.told) = manager.ready
          BY <2>5, <4>1 DEF HLSTakes, TypeOK
        <5> QED BY <5>1, <5>2
      <4>2. CASE paths[m].path # manager.path
        BY <2>5, <4>2 DEF HLSTakes, BeingTold, TypeOK
      <4> QED BY <4>1, <4>2
    <3> QED BY <1>1, <1>2, <1>4, <2>1, <2>3, <2>4, <2>5, <3>2, <3>3 DEF BeingTold
  <2>6. CASE DoSetHLSServer
    <3>1. ASSUME NEW m \in Present PROVE paths[m].ready = (paths[m].path \in ReadyPaths)
      <4>1. m \in Names /\ paths[m] \in PathData
        BY DEF Present
      <4>2. \A j \in Names : paths[j].path = paths[m].path => j = m
        BY <1>2, <4>1 DEF InMap
      <4>3. paths[m].ready <=> paths[m].path \in ReadyPaths
        BY <4>1, <4>2 DEF ReadyPaths
      <4> QED BY <4>1, <4>3 DEF PathData
    <3>2. \A q \in ReadyPaths : path[q] # Ended
      BY DEF ReadyPaths, InMap, Present, Missing, NoData
    <3> QED BY <1>1, <1>2, <2>1, <2>3, <2>4, <2>6, <3>1, <3>2 DEF DoSetHLSServer, BeingTold
  <2>7. CASE HLSStarts \/ HLSCloses \/ DoUnsetHLSServer \/ SetHLSServerSkipped
    <3>1. manager' = manager /\ hls'.at # "serving" /\ hls'.told \subseteq hls.told
      BY <2>7 DEF HLSStarts, HLSCloses, DoUnsetHLSServer, SetHLSServerSkipped, TypeOK
    <3> QED BY <1>1, <1>2, <2>1, <2>3, <2>4, <3>1 DEF BeingTold
  <2> QED BY <2>5, <2>6, <2>7
<1> QED BY <1>1, <1>5, <1>6, <1>7, <1>8

LEMMA ContextDone == ASSUME IInv, Close PROVE IInv'
<1> USE Goroutines DEF IInv, Close
<1>1. /\ \A p \in Paths : path'[p] # Ended <=> path[p] # Ended
      /\ \A p \in Paths : path[p] # Ended =>
             /\ path'[p] \in PathGoroutine /\ path'[p].name = path[p].name
             /\ path'[p].conf = path[p].conf /\ path'[p].source = path[p].source
             /\ path'[p].stream = path[p].stream /\ path'[p].phase = path[p].phase
             /\ path'[p].ctxDone
      /\ path' \in [Paths -> PathGoroutine \cup {Ended}]
  <2>1. path \in [Paths -> PathGoroutine \cup {Ended}]
    BY DEF TypeOK
  <2>2. [Ended EXCEPT !.ctxDone = TRUE] = Ended
    BY DEF Ended
  <2> QED BY <2>1, <2>2, Cancelled
<1>2. Present' = Present /\ \A m \in Present : paths[m].path \in Paths
  BY Entries DEF Present, Missing, PathData
<1>3. TypeOK' /\ ManagerInv'
  BY <1>1, <1>2 DEF TypeOK, ManagerInv, ClientsRefer
<1>4. PathInv'
  <2>1. \A q \in Paths : path'[q] # Ended => Sane(path'[q])
    BY <1>1 DEF PathInv, Sane
  <2>2. \A m \in Present' : path'[paths'[m].path] # Ended => path'[paths'[m].path].name = m
    BY <1>1, <1>2 DEF PathInv
  <2> QED BY <2>1, <2>2 DEF PathInv
<1>5. ConfInv'
  <2>1. \A m \in Present : Fits(InForce(m), m)'
    BY <1>1, <1>2 DEF ConfInv, Fits, InForce
  <2>2. \A k \in couriers' : path'[k.path] # Ended => k.conf.kind = path'[k.path].conf.kind
    BY <1>1 DEF ConfInv, TypeOK
  <2> QED BY <1>2, <2>1, <2>2 DEF ConfInv
<1> QED BY <1>3, <1>4, <1>5

-----------------------------------------------------------------------------
LEMMA InitInv == Init => IInv
<1> SUFFICES ASSUME Init PROVE IInv
  OBVIOUS
<1>1. Present = {} /\ \A p \in Paths : path[p] = Ended /\ ~Current(p)
  BY IdentitiesAssumption DEF Init, Present, Missing, Current, NoData
<1>2. ConfsFit(pathConfs)
  BY ConfigurationsAssumption DEF Init, ConfsFit
<1>3. manager = [at |-> "create", new |-> pathConfs, todo |-> {}, path |-> Nobody, ready |-> FALSE]
  BY DEF Init, At
<1>4. manager.ready \in BOOLEAN
      /\ manager = [at |-> manager.at, new |-> manager.new, todo |-> manager.todo,
                    path |-> manager.path, ready |-> manager.ready]
  BY <1>3
<1>5. TypeOK
  <2>1. ConfsFit(manager.new)
    BY <1>2, <1>3
  <2>2. clients \in [Clients -> [at: {"idle", "asked", "publishing"},
                                 path: Paths \cup {Nobody}, want: Wants]]
    BY DEF Init, Idle, Wants
  <2>3. /\ paths \in [Names -> PathData \cup {NoData}] /\ couriers = {}
        /\ path \in [Paths -> PathGoroutine \cup {Ended}] /\ ctxDone = FALSE
        /\ hlsServer = FALSE /\ hls = [at |-> "none", told |-> {}]
    BY DEF Init
  <2> QED BY <1>2, <1>3, <1>4, <2>1, <2>2, <2>3 DEF TypeOK
<1>6. ManagerInv /\ PathInv /\ ConfInv
  BY <1>1, <1>3, <1>4 DEF Init, ManagerInv, PathInv, ConfInv, ClientsRefer, Idle, Wants
<1>7. View
  BY <1>1, <1>3, Goroutines DEF Init, View, NotInMap
<1> QED BY <1>5, <1>6, <1>7 DEF IInv

LEMMA NextInv == IInv /\ [Next]_vars => IInv'
<1> SUFFICES ASSUME IInv, [Next]_vars PROVE IInv'
  OBVIOUS
<1>1. CASE Reload
  <2>1. ASSUME NEW n \in Names, NEW p \in Paths, CreateStaticPath(n, p) PROVE IInv'
    <3>1. /\ Missing(n) /\ Configured(pathConfs, n) /\ ClientsRefer'
          /\ pathConfs[n] = FindPathConf(pathConfs, n)
      BY <2>1 DEF CreateStaticPath, ToCreate, Configured, FindPathConf, IInv, ManagerInv,
         ClientsRefer
    <3> QED BY <2>1, <3>1, CreateStep DEF CreateStaticPath
  <2> QED BY <1>1, <2>1, ReloadStarts, ReloadRemovesStep, ReloadUpdatesStep, ReloadKeepsStep,
          MovesOn DEF Reload
<1>2. CASE \E k \in couriers : DoReloadConf(k) \/ ReloadConfSkipped(k)
  BY <1>2, CourierStep
<1>3. CASE \E p \in Paths : PathTells(p) \/ PathRuns(p)
  BY <1>3, ReadyStep, CloseStep, PathRunsStep, PathEndsStep DEF PathTells, PathRuns
<1>4. ASSUME NEW c \in Clients, ClientSteps(c) PROVE IInv'
  <2>1. ASSUME NEW n \in Names, NEW w \in Wants, NEW p \in Paths, RequestCreates(c, n, w, p)
        PROVE  IInv'
    <3>1. ClientsRefer'
      BY <2>1 DEF RequestCreates, Asked, IInv, ManagerInv, ClientsRefer
    <3> QED BY <2>1, <3>1, CreateStep DEF RequestCreates
  <2> QED BY <1>4, <2>1, ClientStep, ServedStep DEF ClientSteps, ClientAnswered
<1>5. CASE HLSSteps
  BY <1>5, HLSStep, MovesOn DEF HLSSteps
<1>6. CASE Close \/ RunTerminated
  BY <1>6, ContextDone, MovesOn
<1>7. CASE AllEnded \/ UNCHANGED vars
  <2> USE <1>7 DEF AllEnded, vars, managerVars, IInv
  <2>1. TypeOK' /\ ManagerInv' /\ PathInv'
    BY DEF TypeOK, ManagerInv, ClientsRefer, PathInv, Present, Missing
  <2>2. ConfInv'
    BY DEF ConfInv, Present, Missing, Fits, InForce
  <2>3. (~ctxDone => View)'
    BY DEF View, InMap, NotInMap, Present, Missing, Current, BeingTold, WaitedFor
  <2> QED BY <2>1, <2>2, <2>3
<1> QED BY <1>1, <1>2, <1>3, <1>4, <1>5, <1>6, <1>7 DEF Next

LEMMA InvCorrect == Spec => []IInv
  BY InitInv, NextInv, PTL DEF Spec

(* Every variable of the path manager keeps its type.                      *)
THEOREM TypeCorrect == Spec => []TypeOK
<1>1. IInv => TypeOK
  BY DEF IInv
<1> QED BY InvCorrect, <1>1, PTL

(* "avoid conflicts between sources": of two goroutines of one name only   *)
(* one has a source, whatever is reloaded, created, closed or asked for    *)
(* meanwhile, until pm.ctx is done.                                        *)
THEOREM OneSourceCorrect == Spec => []OneSourcePerName
<1>1. ASSUME IInv PROVE OneSourcePerName
  <2> SUFFICES ASSUME ~ctxDone, NEW p \in Paths, NEW q \in Paths, p # q,
                      path[p] # Ended, path[q] # Ended, path[p].name = path[q].name
               PROVE  path[p].source = Nobody \/ path[q].source = Nobody
    BY DEF OneSourcePerName
  <2> USE <1>1 DEF IInv
  <2>1. Current(p) => ~Current(q) /\ ~Missing(path[q].name)
    BY OwnEntry DEF Current, Present
  <2>2. Current(q) => ~Missing(path[p].name)
    BY OwnEntry DEF Current, Present
  <2> QED BY <2>1, <2>2 DEF View, NotInMap, WaitedFor
<1> QED BY InvCorrect, <1>1, PTL

(* The map, the goroutines of the paths and the HLS server agree: who is   *)
(* in the map is alive and ready when the map says so, who is not is       *)
(* ending, and the HLS server knows which paths are ready.                 *)
THEOREM ViewCorrect == Spec => []ManagerView
<1>1. ASSUME IInv PROVE ManagerView
  <2> SUFFICES ASSUME ~ctxDone
               PROVE  /\ \A n \in Present : InMap(n)
                      /\ \A p \in Paths : Current(p) \/ path[p].ctxDone
                      /\ manager.at = "serving" /\ hls.at = "serving" =>
                             \A n \in Present : paths[n].ready = (paths[n].path \in hls.told)
    BY DEF ManagerView, InMap
  <2> QED BY <1>1 DEF IInv, View, NotInMap, BeingTold
<1> QED BY InvCorrect, <1>1, PTL

(* After any reloads, the paths that were kept have the configuration that *)
(* their names find, and what is on its way to one can be applied to it.   *)
THEOREM ConfigurationCorrect == Spec => []MapFollowsConfiguration
<1>1. ASSUME IInv PROVE MapFollowsConfiguration
  <2> USE <1>1, Goroutines DEF IInv
  <2>1. \A n \in Present : Fits(InForce(n), n)
    BY DEF ConfInv
  <2>2. manager.at = "serving" => \A n \in Present : Fits(pathConfs, n)
    BY <2>1 DEF InForce
  <2>3. \A k \in couriers : ~path[k.path].ctxDone => path[k.path] # Ended
    OBVIOUS
  <2> QED BY <2>2, <2>3 DEF MapFollowsConfiguration, Fits, ConfInv, PathInv, Sane
<1> QED BY InvCorrect, <1>1, PTL

=============================================================================
